---- MODULE Spec2Model ----
(***************************************************************************)
(* A model of the CodeArtifact constructs: Domain / ImportedDomain         *)
(* (lib/domain.ts) and Repository / ImportedRepository                     *)
(* (lib/repository.ts).                                                    *)
(*                                                                         *)
(* lib/domain.ts holds two versions of the Domain class, one after the     *)
(* other.  The earlier one (lines 1-272) has the class ImportedDomain, the *)
(* default grants of the constructor, addToResourcePolicy and the grant    *)
(* methods; the later one (lines 274-565) has addRepositories and its own  *)
(* fromDomainAttributes.  ImportDomain is the import of the earlier        *)
(* version, the only one with which Repository.fromRepositoryArn works;    *)
(* FromDomainAttributes is the import of the later version.                *)
(*                                                                         *)
(* A JavaScript string is a finite sequence of tokens.  A token is one     *)
(* character ("a", "-", ":", "/") or an atomic word that no operation of   *)
(* the model ever looks inside ("arn", "codeartifact", "123456789012").    *)
(* The value `undefined` is the one-token sequence Undefined; the empty    *)
(* string is << >>.  Objects live in tables and are referred to by their   *)
(* index; the reference 0 is `undefined`.                                  *)
(***************************************************************************)
EXTENDS Integers, Sequences, FiniteSets, TLC

VARIABLES
    domains,     \* every IDomain built so far (Domain and ImportedDomain)
    repos,       \* every IRepository built so far
    docs,        \* the heap of iam.PolicyDocument objects: each a sequence of statements
    constructs,  \* the construct tree: the set of paths registered by super(scope, id)
    last,        \* the last call: its name, arguments and outcome
    calls        \* the number of method calls made on the objects built

vars == <<domains, repos, docs, constructs, last, calls>>

---------------------------------------------------------------------------
(* Bounds of the model.                                                    *)

MaxRepos == 3
MaxUpstreams == 2
MaxDomains == 2
MaxMutable == 2
MaxCalls == 1
MaxDocs == 1
MaxImports == 2
MaxMutations == 2
MaxAttempts == 2
MaxDomainNameLength == 51
MaxRepositoryNameLength == 101
MaxNewUpstreams == 1

---------------------------------------------------------------------------
(* JavaScript values.                                                      *)

Undefined == <<"undefined">>
EmptyString == << >>
UndefinedList == << <<"undefined-list">> >>
NoPrincipal == "undefined"

\* JavaScript truthiness of a string-or-undefined value.
Truthy(s) == s # Undefined /\ s # EmptyString

\* a ?? b
Coalesce(a, b) == IF a = Undefined THEN b ELSE a

\* a || b
OrElse(a, b) == IF Truthy(a) THEN a ELSE b

\* arr[i] with JavaScript's 0-based index: undefined when out of range.
At(arr, i) == IF i + 1 \in DOMAIN arr THEN arr[i + 1] ELSE Undefined

\* The position of the first token equal to sep in s, 0 when there is none.
IndexOf(s, sep) ==
    IF \E i \in DOMAIN s : s[i] = sep
    THEN CHOOSE i \in DOMAIN s : s[i] = sep /\ \A j \in 1..(i - 1) : s[j] # sep
    ELSE 0

\* String.prototype.split(sep): the pieces of s between the separators.
RECURSIVE Split(_, _)
Split(s, sep) ==
    LET i == IndexOf(s, sep)
    IN IF i = 0 THEN <<s>>
       ELSE <<SubSeq(s, 1, i - 1)>> \o Split(SubSeq(s, i + 1, Len(s)), sep)

\* The text of a string: its tokens run together.
RECURSIVE Text(_)
Text(s) == IF s = << >> THEN "" ELSE Head(s) \o Text(Tail(s))

\* Array.prototype.join(sep): an undefined element is joined as "".
RECURSIVE Join(_, _)
Join(parts, sep) ==
    LET first == IF parts[1] = Undefined THEN EmptyString ELSE parts[1]
    IN IF parts = << >> THEN << >>
       ELSE IF Len(parts) = 1 THEN first
       ELSE first \o <<sep>> \o Join(Tail(parts), sep)

---------------------------------------------------------------------------
(* The deployment environment of the enclosing Stack.                      *)

StackAccount == <<"${AWS::AccountId}">>
StackRegion == <<"${AWS::Region}">>
StackPartition == <<"${AWS::Partition}">>

\* The id the caller gives the n-th construct it declares in the stack.
NodeId(n) == <<"c", ToString(n)>>
ResourceId == <<"Resource">>
ImportedDomainId == <<"ImportedDomain">>

\* The number of constructs declared directly in the stack so far.
TopLevel == Cardinality({p \in constructs : Len(p) = 1})

\* An attribute of an underlying resource (Fn::GetAtt): known only at deployment.
AttrToken(id, attr) == <<"${Token[">> \o id \o <<".", attr, "]}">>

\* Token.isUnresolved: the string holds a value known only at deployment.
IsUnresolved(s) ==
    \E i \in DOMAIN s :
        s[i] \in {"${Token[", "${AWS::AccountId}", "${AWS::Region}", "${AWS::Partition}"}

---------------------------------------------------------------------------
(* validate(fieldName, rule, value) of lib/validation.ts, after section    *)
(* 4.1 and section 6 of the specification: "" when the value passes, the   *)
(* error message otherwise.                                                *)

Lower == {"a", "b", "c", "d", "e", "f", "g", "h", "i", "j", "k", "l", "m",
          "n", "o", "p", "q", "r", "s", "t", "u", "v", "w", "x", "y", "z"}
Digit == {"0", "1", "2", "3", "4", "5", "6", "7", "8", "9"}
Letter ==
    Lower \cup {"A", "B", "C", "D", "E", "F", "G", "H", "I", "J", "K", "L", "M",
                "N", "O", "P", "Q", "R", "S", "T", "U", "V", "W", "X", "Y", "Z"}

\* The white space of \s: the ASCII white space, and the other white space
\* and line terminator characters, each a token: those a string of this
\* module can hold as the character itself, and all of them under the name
\* of their code point.
Whitespace ==
    {" ", "\t", "\n", "\r", "\f", "", " ", " ", "﻿"}
    \cup
    {"\\u000b", "\\u00a0", "\\u1680", "\\u2000", "\\u2001",
     "\\u2002", "\\u2003", "\\u2004", "\\u2005", "\\u2006",
     "\\u2007", "\\u2008", "\\u2009", "\\u200a", "\\u2028",
     "\\u2029", "\\u202f", "\\u205f", "\\u3000", "\\ufeff"}

\* /[a-z][a-z0-9\-]{0,48}[a-z0-9]/gi finds a match in s.
MatchesDomainName(s) ==
    \E i, j \in DOMAIN s :
        /\ i < j
        /\ j - i - 1 <= 48
        /\ s[i] \in Letter
        /\ s[j] \in Letter \cup Digit
        /\ \A k \in (i + 1)..(j - 1) : s[k] \in Letter \cup Digit \cup {"-"}

\* /[A-Za-z0-9][A-Za-z0-9._\-]{1,99}/gi finds a match in s.
MatchesRepositoryName(s) ==
    \E i, j \in DOMAIN s :
        /\ i < j
        /\ j - i <= 99
        /\ s[i] \in Letter \cup Digit
        /\ \A k \in (i + 1)..j : s[k] \in Letter \cup Digit \cup {".", "_", "-"}

\* /\P{C}+/gi finds a match in s. The literal has no u flag, so \P is the
\* letter P and the braces are literal: a match is "P{C}" in either case.
MatchesDescription(s) ==
    \E i \in DOMAIN s :
        /\ i + 3 \in DOMAIN s
        /\ s[i] \in {"P", "p"}
        /\ s[i + 1] = "{"
        /\ s[i + 2] \in {"C", "c"}
        /\ s[i + 3] = "}"

\* /\S+/gi finds a match in s.
MatchesEncryptionKey(s) == \E i \in DOMAIN s : s[i] \notin Whitespace

Matches(pattern, s) ==
    CASE pattern = "[a-z][a-z0-9\\-]{0,48}[a-z0-9]" -> MatchesDomainName(s)
      [] pattern = "[A-Za-z0-9][A-Za-z0-9._\\-]{1,99}" -> MatchesRepositoryName(s)
      [] pattern = "\\P{C}+" -> MatchesDescription(s)
      [] pattern = "\\S+" -> MatchesEncryptionKey(s)

\* A value that is absent or empty passes unless it is required. The length
\* bounds are tested before the pattern, for a rule that gives both of them:
\* a description has no lower bound, and one that is too long is reported
\* against the pattern (test "Repository description too long"). The length
\* and pattern messages end with the documentation link (tests "Repository
\* invalid RepositoryName length" and "... pattern").
Validate(fieldName, rule, value) ==
    IF ~Truthy(value)
    THEN IF rule.required THEN fieldName \o ": is required." ELSE ""
    ELSE IF rule.minLength > 0 /\ Len(value) < rule.minLength
    THEN fieldName \o ": must be at least " \o ToString(rule.minLength)
             \o " characters long. Must match rules from " \o rule.documentationLink
    ELSE IF rule.minLength > 0 /\ Len(value) > rule.maxLength
    THEN fieldName \o ": must be less than " \o ToString(rule.maxLength)
             \o " characters long. Must match rules from " \o rule.documentationLink
    ELSE IF ~Matches(rule.pattern, value)
    THEN fieldName \o ": must match pattern " \o rule.pattern
             \o ". Must match rules from " \o rule.documentationLink
    ELSE ""

---------------------------------------------------------------------------
(* IAM policy statements and documents.                                    *)

AccountRootPrincipal == "AccountRootPrincipal"
Wildcard == <<"*">>

Statement(principal, actions, resources) ==
    [effect |-> "Allow", principals |-> <<principal>>,
     actions |-> actions, resources |-> resources]

\* The statements a caller builds by hand (test "Domain w/ Repository and
\* policy document").
CallerStatements ==
    {[effect |-> "Allow", principals |-> << >>,
      actions |-> <<"codeartifact:DescribePackageVersion">>, resources |-> << >>],
     [effect |-> "Deny", principals |-> <<"alice">>,
      actions |-> <<"codeartifact:DeletePackageVersions">>, resources |-> <<Wildcard>>]}

\* PolicyDocument.addStatements(statement) on the document at reference ref.
AddStatements(heap, ref, statement) ==
    [heap EXCEPT ![ref] = Append(@, statement)]

\* The policy a document reference renders to: nothing for undefined.
Rendered(heap, ref) == IF ref = 0 THEN << >> ELSE heap[ref]

---------------------------------------------------------------------------
(* lib/domain.ts: Domain.                                                  *)

NoKey == [keyArn |-> Undefined, keyId |-> Undefined]

\* A mutant of DomainNameRule: the upper bound is one more.
DomainNameRuleOneMore ==
    [required |-> TRUE, minLength |-> 2, maxLength |-> 51,
     pattern |-> "[a-z][a-z0-9\\-]{0,48}[a-z0-9]",
     documentationLink |-> "https://docs.aws.amazon.com/AWSCloudFormation/latest/UserGuide/aws-resource-codeartifact-domain.html#cfn-codeartifact-domain-domainname"]

DomainNameRule ==
    [required |-> TRUE, minLength |-> 2, maxLength |-> 50,
     pattern |-> "[a-z][a-z0-9\\-]{0,48}[a-z0-9]",
     documentationLink |-> "https://docs.aws.amazon.com/AWSCloudFormation/latest/UserGuide/aws-resource-codeartifact-domain.html#cfn-codeartifact-domain-domainname"]

EncryptionKeyRule ==
    [required |-> FALSE, minLength |-> 1, maxLength |-> 2048,
     pattern |-> "\\S+",
     documentationLink |-> "https://docs.aws.amazon.com/AWSCloudFormation/latest/UserGuide/aws-resource-codeartifact-domain.html#cfn-codeartifact-domain-encryptionkey"]

\* A mutant of DomainValidateProps: the name is validated without first
\* being tested for an unresolved value.
DomainValidatePropsNoResolveCheck(domainName, domainEncryptionKey) ==
    LET e1 == Validate("DomainName", DomainNameRule, domainName)
        e2 == Validate("EncryptionKey", EncryptionKeyRule,
                       OrElse(domainEncryptionKey.keyArn, EmptyString))
    IN IF e1 # "" THEN e1 ELSE e2

\* Domain.validateProps: "" or the message of the error thrown.
DomainValidateProps(domainName, domainEncryptionKey) ==
    IF IsUnresolved(domainName)
    THEN "'domainName' must resolve, got: '" \o Text(domainName) \o "'"
    ELSE LET e1 == Validate("DomainName", DomainNameRule, domainName)
             e2 == Validate("EncryptionKey", EncryptionKeyRule,
                            OrElse(domainEncryptionKey.keyArn, EmptyString))
         IN IF e1 # "" THEN e1 ELSE e2

\* The Domain object the constructor leaves behind.
DomainObject(id, domainName, domainEncryptionKey, policyDocument) ==
    [kind |-> "Domain", id |-> id,
     domainName |-> domainName,
     domainArn |-> AttrToken(id, "Arn"),
     domainOwner |-> AttrToken(id, "Owner"),
     policyDocument |-> policyDocument,
     cfnDomain |-> [domainName |-> domainName,
                    encryptionKey |-> domainEncryptionKey.keyId]]

\* cfnDomain.permissionsPolicyDocument, a Lazy over props.policyDocument:
\* the statements the domain's underlying resource is emitted with.
DomainPermissionsPolicyDocument(heap, d) == Rendered(heap, d.policyDocument)

\* new Domain(scope, id, {domainName, domainEncryptionKey, principal, policyDocument})
NewDomain(name, key, principal, policyDocument) ==
    LET id == NodeId(TopLevel + 1)
        domainName == Coalesce(name, id)
        err == DomainValidateProps(domainName, key)
        call == [op |-> "new Domain",
                 self |-> IF err = "" THEN Len(domains) + 1 ELSE 0,
                 ok |-> err = "", error |-> err,
                 name |-> name, key |-> key, principal |-> principal,
                 policyDocument |-> policyDocument]
    IN /\ last' = call
       /\ UNCHANGED <<repos, docs>>
       /\ IF err # ""
          THEN /\ constructs' = constructs \cup {<<id>>}
               /\ UNCHANGED domains
          ELSE /\ constructs' = constructs \cup {<<id>>, <<id, ResourceId>>}
               /\ domains' = Append(domains,
                                    DomainObject(id, domainName, key, policyDocument))

\* A mutant of DomainAddToResourcePolicyOutcome: the statement is appended to
\* the document the domain was given, as Repository.addToResourcePolicy does.
DomainAddToResourcePolicyAppending(heap, d, statement) ==
    IF d.policyDocument = 0
    THEN [statementAdded |-> TRUE, policyDependable |-> <<statement>>, heap |-> heap]
    ELSE [statementAdded |-> TRUE,
          policyDependable |-> Append(heap[d.policyDocument], statement),
          heap |-> AddStatements(heap, d.policyDocument, statement)]

\* What Domain.addToResourcePolicy(statement) does on domain d: the statement
\* goes to a fresh document that only the result refers to.
DomainAddToResourcePolicyOutcome(heap, d, statement) ==
    IF d.policyDocument = 0
    THEN [statementAdded |-> TRUE, policyDependable |-> <<statement>>, heap |-> heap]
    ELSE [statementAdded |-> FALSE, policyDependable |-> << >>, heap |-> heap]

DomainAddToResourcePolicy(d, statement) ==
    LET out == DomainAddToResourcePolicyOutcome(docs, domains[d], statement)
    IN /\ domains[d].kind = "Domain"
       /\ docs' = out.heap
       /\ last' = [op |-> "Domain.addToResourcePolicy", self |-> d,
                   ok |-> TRUE, error |-> "",
                   statement |-> statement,
                   statementAdded |-> out.statementAdded,
                   policyDependable |-> out.policyDependable]
       /\ UNCHANGED <<domains, repos, constructs>>

\* The static action tables of perms.ts for domains.
DOMAIN_READ_ACTIONS ==
    <<"codeartifact:DescribeDomain",
      "codeartifact:GetDomainPermissionsPolicy",
      "codeartifact:ListRepositoriesInDomain">>
DOMAIN_LOGIN_ACTIONS == <<"codeartifact:GetAuthorizationToken">>
DOMAIN_CREATE_ACTIONS == <<"codeartifact:CreateRepository">>

\* Domain.grant(principal, iamActions, resource = '*'): the statement that
\* iam.Grant.addToPrincipalOrResource builds for a grantee without a policy
\* of its own and hands to addToResourcePolicy of the domain.
DomainGrant(heap, d, principal, iamActions, resource) ==
    LET statement == Statement(principal, iamActions, <<resource>>)
        out == DomainAddToResourcePolicyOutcome(heap, d, statement)
    IN [statement |-> statement, statementAdded |-> out.statementAdded,
        heap |-> out.heap]

\* Domain.grantRead(principal)
DomainGrantRead(heap, d, principal) ==
    DomainGrant(heap, d, principal, DOMAIN_READ_ACTIONS, Wildcard)

\* Domain.grantLogin(principal)
DomainGrantLogin(heap, d, principal) ==
    DomainGrant(heap, d, principal, DOMAIN_LOGIN_ACTIONS, Wildcard)

\* Domain.grantCreate(principal)
DomainGrantCreate(heap, d, principal) ==
    DomainGrant(heap, d, principal, DOMAIN_CREATE_ACTIONS, Wildcard)

\* domain.<method>(principal), for the three grants of a domain.
DomainGrantCall(d, method, principal) ==
    \E out \in {CASE method = "Domain.grantRead" ->
                         DomainGrantRead(docs, domains[d], principal)
                  [] method = "Domain.grantLogin" ->
                         DomainGrantLogin(docs, domains[d], principal)
                  [] method = "Domain.grantCreate" ->
                         DomainGrantCreate(docs, domains[d], principal)} :
        /\ domains[d].kind = "Domain"
        /\ docs' = out.heap
        /\ last' = [op |-> method, self |-> d, ok |-> TRUE, error |-> "",
                    principal |-> principal, statement |-> out.statement,
                    statementAdded |-> out.statementAdded]
        /\ UNCHANGED <<domains, repos, constructs>>

---------------------------------------------------------------------------
(* The ARN codec of the Stack (aws-cdk-lib core), after section 4.2 of the *)
(* specification.                                                          *)

\* Stack.splitArn(arn, ArnFormat.SLASH_RESOURCE_NAME): the components of the
\* ARN, or ok = FALSE when the ARN is rejected.
SplitArn(arn) ==
    LET components == Split(arn, ":")
        part(i) == At(components, i)
        typeOrName == part(5)
        rest == IF Len(components) > 6
                THEN SubSeq(components, 7, Len(components)) ELSE << >>
        newStyle == IndexOf(typeOrName, "/") = 1
        body == IF newStyle THEN Tail(typeOrName) ELSE typeOrName
        slash == IndexOf(body, "/")
        resource == IF slash = 0 THEN body ELSE SubSeq(body, 1, slash - 1)
        name0 == IF slash = 0 THEN Undefined ELSE SubSeq(body, slash + 1, Len(body))
        resourceName ==
            IF rest = << >> THEN name0
            ELSE (IF Truthy(name0) THEN name0 \o <<":">> ELSE << >>) \o Join(rest, ":")
        bad == [ok |-> FALSE, partition |-> Undefined, service |-> Undefined,
                region |-> Undefined, account |-> Undefined,
                resource |-> Undefined, resourceName |-> Undefined]
    IN IF arn = Undefined THEN bad
       ELSE IF Len(components) < 2 \/ components[1] # <<"arn">>
       THEN IF IsUnresolved(arn)
            THEN [ok |-> TRUE,
                  partition |-> <<"${Token[">> \o arn \o <<".", "partition", "]}">>,
                  service |-> <<"${Token[">> \o arn \o <<".", "service", "]}">>,
                  region |-> <<"${Token[">> \o arn \o <<".", "region", "]}">>,
                  account |-> <<"${Token[">> \o arn \o <<".", "account", "]}">>,
                  resource |-> <<"${Token[">> \o arn \o <<".", "resource", "]}">>,
                  resourceName |-> <<"${Token[">> \o arn \o <<".", "resourceName", "]}">>]
            ELSE bad
       ELSE IF ~Truthy(part(1)) \/ ~Truthy(part(2)) \/ ~Truthy(typeOrName) THEN bad
       ELSE [ok |-> TRUE,
             partition |-> part(1),
             service |-> part(2),
             region |-> IF Truthy(part(3)) THEN part(3) ELSE Undefined,
             account |-> IF Truthy(part(4)) THEN part(4) ELSE Undefined,
             resource |-> IF Truthy(resource) THEN resource ELSE Undefined,
             resourceName |-> resourceName]

\* Stack.formatArn({service, resource, resourceName, account, region,
\* partition, arnFormat: SLASH_RESOURCE_NAME}); an undefined account, region
\* or partition is the stack's own.
FormatArn(partition, service, region, account, resource, resourceName) ==
    <<"arn", ":">> \o Coalesce(partition, StackPartition) \o <<":">> \o service
    \o <<":">> \o Coalesce(region, StackRegion)
    \o <<":">> \o Coalesce(account, StackAccount)
    \o <<":">> \o resource \o <<"/">> \o resourceName

---------------------------------------------------------------------------
(* lib/domain.ts: ImportedDomain.                                          *)

DomainAttributes(domainArn, domainName, domainOwner) ==
    [domainArn |-> domainArn, domainName |-> domainName, domainOwner |-> domainOwner]

\* A mutant of ArnOwner: the owner is read from the region segment.
ArnOwnerFromRegionSegment(domainArn) == At(Split(domainArn, ":"), 3)

\* this.domainOwner = props.domainArn.split(':')[4]
ArnOwner(domainArn) == At(Split(domainArn, ":"), 4)

\* A mutant of ImportedDomainError: the check of domainArn against domainOwner
\* is missing.
ImportedDomainErrorNoOwnerCheck(props) ==
    IF Truthy(props.domainArn) /\ Truthy(props.domainName)
    THEN "domainArn and domainName are mutually exclusive"
    ELSE ""

\* The two checks that open the constructor of ImportedDomain: "" or the
\* message of the error thrown.
ImportedDomainError(props) ==
    IF Truthy(props.domainArn) /\ Truthy(props.domainName)
    THEN "domainArn and domainName are mutually exclusive"
    ELSE IF Truthy(props.domainArn) /\ Truthy(props.domainOwner)
    THEN "domainArn and domainOwner are mutually exclusive"
    ELSE ""

\* new ImportedDomain(scope, id, props): ok with the object built, or the
\* message of the error thrown.
ImportedDomain(id, props) ==
    LET base == [kind |-> "ImportedDomain", id |-> id,
                 domainName |-> Undefined, domainArn |-> Undefined,
                 domainOwner |-> Undefined, policyDocument |-> 0,
                 cfnDomain |-> [domainName |-> Undefined, encryptionKey |-> Undefined]]
        arn == SplitArn(props.domainArn)
        fromArn ==
            IF Truthy(props.domainArn)
            THEN [base EXCEPT !.domainArn = props.domainArn,
                              !.domainName = arn.resourceName,
                              !.domainOwner = ArnOwner(props.domainArn)]
            ELSE base
        owner == IF ~Truthy(props.domainOwner) THEN StackAccount ELSE props.domainOwner
        fromName ==
            IF Truthy(props.domainName)
            THEN [fromArn EXCEPT
                     !.domainName = props.domainName,
                     !.domainOwner = owner,
                     !.domainArn = FormatArn(Undefined, <<"codeartifact">>, Undefined,
                                             owner, <<"domain">>, props.domainName)]
            ELSE fromArn
    IN IF ImportedDomainError(props) # ""
       THEN [ok |-> FALSE, error |-> ImportedDomainError(props), object |-> base]
       ELSE IF Truthy(props.domainArn) /\ ~arn.ok
       THEN [ok |-> FALSE, error |-> "ARNs must start with \"arn:\" and have at least 6 components",
             object |-> base]
       ELSE [ok |-> TRUE, error |-> "", object |-> fromName]

\* Domain.fromDomainAttributes(stack, id, attrs) / Domain.fromDomainArn.
ImportDomain(props) ==
    \E out \in {ImportedDomain(NodeId(TopLevel + 1), props)} :
    LET id == NodeId(TopLevel + 1)
    IN /\ constructs' = constructs \cup {<<id>>}
       /\ domains' = IF out.ok THEN Append(domains, out.object) ELSE domains
       /\ last' = [op |-> "Domain.fromDomainAttributes",
                   self |-> IF out.ok THEN Len(domains) + 1 ELSE 0,
                   ok |-> out.ok, error |-> out.error, props |-> props]
       /\ UNCHANGED <<repos, docs>>

\* Domain.fromDomainAttributes(scope, id, attrs) of the later version of the
\* Domain class, the one that has addRepositories: the name is attrs.domainName
\* or else the resource name of attrs.domainArn, a call without a name fails
\* before anything is registered, and the object built (class Import) has
\* the name and the ARN given and no owner.
FromDomainAttributes(attrs) ==
    LET arn == SplitArn(attrs.domainArn)
        domainName == IF Truthy(attrs.domainName) THEN attrs.domainName
                      ELSE arn.resourceName
        error == IF Truthy(attrs.domainName) THEN ""
                 ELSE IF attrs.domainArn = Undefined
                 THEN "Cannot read properties of undefined (reading 'startsWith')"
                 ELSE IF ~arn.ok
                 THEN "ARNs must start with \"arn:\" and have at least 6 components"
                 ELSE IF ~Truthy(domainName)
                 THEN "Domain name is required as a resource name with the ARN"
                 ELSE ""
        id == NodeId(TopLevel + 1)
    IN /\ constructs' = IF error = "" THEN constructs \cup {<<id>>} ELSE constructs
       /\ domains' = IF error = ""
                     THEN Append(domains,
                              [kind |-> "Import", id |-> id,
                               domainName |-> domainName,
                               domainArn |-> attrs.domainArn,
                               domainOwner |-> Undefined, policyDocument |-> 0,
                               cfnDomain |-> [domainName |-> Undefined,
                                              encryptionKey |-> Undefined]])
                     ELSE domains
       /\ last' = [op |-> "Domain.fromDomainAttributes",
                   self |-> IF error = "" THEN Len(domains) + 1 ELSE 0,
                   ok |-> error = "", error |-> error, props |-> attrs]
       /\ UNCHANGED <<repos, docs>>

---------------------------------------------------------------------------
(* lib/repository.ts: Repository.                                          *)

\* props.upstreams when the caller gives none.
NoUpstreams == <<0>>

RepositoryReadActions ==
    <<"codeartifact:DescribePackageVersion",
      "codeartifact:DescribeRepository",
      "codeartifact:GetPackageVersionReadme",
      "codeartifact:GetRepositoryEndpoint",
      "codeartifact:ListPackageVersionAssets",
      "codeartifact:ListPackageVersionDependencies",
      "codeartifact:ListPackageVersions",
      "codeartifact:ListPackages",
      "codeartifact:ReadFromRepository">>

RepositoryWriteActions ==
    <<"codeartifact:PublishPackageVersion", "codeartifact:PutPackageMetadata">>

DescriptionRule ==
    [required |-> FALSE, minLength |-> 0, maxLength |-> 1000,
     pattern |-> "\\P{C}+",
     documentationLink |-> "https://docs.aws.amazon.com/AWSCloudFormation/latest/UserGuide/aws-resource-codeartifact-repository.html#cfn-codeartifact-repository-description"]

RepositoryDomainNameRule ==
    [required |-> TRUE, minLength |-> 2, maxLength |-> 50,
     pattern |-> "[a-z][a-z0-9\\-]{0,48}[a-z0-9]",
     documentationLink |-> "https://docs.aws.amazon.com/AWSCloudFormation/latest/UserGuide/aws-resource-codeartifact-repository.html#cfn-codeartifact-repository-domainname"]

\* A mutant of RepositoryNameRule: the upper bound is one more.
RepositoryNameRuleOneMore ==
    [required |-> TRUE, minLength |-> 2, maxLength |-> 101,
     pattern |-> "[A-Za-z0-9][A-Za-z0-9._\\-]{1,99}",
     documentationLink |-> "https://docs.aws.amazon.com/AWSCloudFormation/latest/UserGuide/aws-resource-codeartifact-repository.html#cfn-codeartifact-repository-repositoryname"]

RepositoryNameRule ==
    [required |-> TRUE, minLength |-> 2, maxLength |-> 100,
     pattern |-> "[A-Za-z0-9][A-Za-z0-9._\\-]{1,99}",
     documentationLink |-> "https://docs.aws.amazon.com/AWSCloudFormation/latest/UserGuide/aws-resource-codeartifact-repository.html#cfn-codeartifact-repository-repositoryname"]

\* Repository.validateProps: "" or the message of the error thrown.
RepositoryValidateProps(repositoryName, repositoryDomainName, repositoryDescription) ==
    LET e1 == Validate("Description", DescriptionRule, repositoryDescription)
        e2 == Validate("DomainName", RepositoryDomainNameRule, repositoryDomainName)
        e3 == Validate("RepositoryName", RepositoryNameRule, repositoryName)
    IN IF e1 # "" THEN e1 ELSE IF e2 # "" THEN e2 ELSE e3

NoCfnRepository ==
    [domainName |-> Undefined, domainOwner |-> Undefined,
     repositoryName |-> Undefined, description |-> Undefined,
     upstreams |-> UndefinedList, externalConnections |-> Undefined,
     permissionsPolicyDocument |-> 0]

\* A mutant of RepositoryAddToResourcePolicy: the statement always goes to a
\* new document, which replaces the one the repository held.
RepositoryAddToResourcePolicyReplacing(heap, r, statement) ==
    LET p == Len(heap) + 1
    IN [heap |-> AddStatements(Append(heap, << >>), p, statement),
        repo |-> [r EXCEPT !.cfnRepository.permissionsPolicyDocument = p],
        statementAdded |-> TRUE]

\* Repository.addToResourcePolicy(statement) on repository object r: the
\* heap and the object afterwards.
RepositoryAddToResourcePolicy(heap, r, statement) ==
    LET old == r.cfnRepository.permissionsPolicyDocument
        p == IF old # 0 THEN old ELSE Len(heap) + 1
        heap1 == IF old # 0 THEN heap ELSE Append(heap, << >>)
    IN [heap |-> AddStatements(heap1, p, statement),
        repo |-> [r EXCEPT !.cfnRepository.permissionsPolicyDocument = p],
        statementAdded |-> TRUE]

\* Repository.allowReadFromRepository(principal)
AllowReadFromRepository(heap, r, principal) ==
    RepositoryAddToResourcePolicy(heap, r,
        Statement(principal, RepositoryReadActions, <<Wildcard>>))

\* Repository.allowWriteToRepository(principal, resources)
AllowWriteToRepository(heap, r, principal, resources) ==
    RepositoryAddToResourcePolicy(heap, r,
        Statement(principal, RepositoryWriteActions, resources))

\* Repository.allowDeleteFromRepository(principal, resources)
AllowDeleteFromRepository(heap, r, principal, resources) ==
    RepositoryAddToResourcePolicy(heap, r,
        Statement(principal, <<"codeartifact:DeletePackageVersions">>, resources))

\* The static action tables of perms.ts for repositories.
REPOSITORY_READ_ACTIONS ==
    <<"codeartifact:DescribePackageVersion",
      "codeartifact:DescribeRepository",
      "codeartifact:GetPackageVersionReadme",
      "codeartifact:GetRepositoryEndpoint",
      "codeartifact:ListPackageVersionAssets",
      "codeartifact:ListPackageVersionDependencies",
      "codeartifact:ListPackageVersions",
      "codeartifact:ListPackages",
      "codeartifact:ReadFromRepository">>
REPOSITORY_WRITE_ACTIONS ==
    <<"codeartifact:PublishPackageVersion", "codeartifact:PutPackageMetadata">>

\* iam.Grant.addToPrincipalOrResource({grantee, actions, resourceArns,
\* resource}) for a grantee that holds no policy of its own (an account or
\* ARN principal): the statement is added to the policy of the resource.
GrantAddToPrincipalOrResource(heap, r, grantee, actions, resourceArns) ==
    RepositoryAddToResourcePolicy(heap, r, Statement(grantee, actions, resourceArns))

\* Repository.grant(identity, actions, resourceArns = ["*"])
RepositoryGrant(heap, r, identity, actions, resourceArns) ==
    GrantAddToPrincipalOrResource(heap, r, identity, actions, resourceArns)

\* Repository.grantRead(identity)
GrantRead(heap, r, identity) ==
    RepositoryGrant(heap, r, identity, REPOSITORY_READ_ACTIONS, <<Wildcard>>)

\* Repository.grantWrite(identity)
GrantWrite(heap, r, identity) ==
    RepositoryGrant(heap, r, identity, REPOSITORY_WRITE_ACTIONS, <<Wildcard>>)

\* A mutant of GrantReadWrite: the write actions come before the read actions.
GrantReadWriteWriteFirst(heap, r, identity) ==
    RepositoryGrant(heap, r, identity,
                    REPOSITORY_WRITE_ACTIONS \o REPOSITORY_READ_ACTIONS, <<Wildcard>>)

\* Repository.grantReadWrite(identity)
GrantReadWrite(heap, r, identity) ==
    RepositoryGrant(heap, r, identity,
                    REPOSITORY_READ_ACTIONS \o REPOSITORY_WRITE_ACTIONS, <<Wildcard>>)

\* r.addToResourcePolicy(statement), called by the user of the repository.
RepositoryAddToResourcePolicyCall(r, statement) ==
    \E out \in {RepositoryAddToResourcePolicy(docs, repos[r], statement)} :
        /\ repos[r].kind = "Repository"
        /\ docs' = out.heap
        /\ repos' = [repos EXCEPT ![r] = out.repo]
        /\ last' = [op |-> "addToResourcePolicy", self |-> r, ok |-> TRUE,
                    error |-> "", statement |-> statement,
                    statementAdded |-> out.statementAdded]
        /\ UNCHANGED <<domains, constructs>>


\* props.upstreams?.map((u) => u.repositoryName)
UpstreamNames(upstreams) ==
    IF upstreams = NoUpstreams THEN UndefinedList
    ELSE [i \in 1..Len(upstreams) |-> repos[upstreams[i]].repositoryName]

\* A mutant of UpstreamDependencies: only the first upstream becomes a
\* dependency.
UpstreamDependenciesFirstOnly(upstreams) ==
    IF upstreams = NoUpstreams \/ upstreams = << >> THEN {} ELSE {upstreams[1]}

\* if (props.upstreams) props.upstreams.forEach((u) => this.node.addDependency(u))
UpstreamDependencies(upstreams) ==
    IF upstreams = NoUpstreams THEN {}
    ELSE {upstreams[i] : i \in 1..Len(upstreams)}

\* A mutant of RepositoryInitialPolicy: the default grants are made whether
\* or not a document is supplied.
RepositoryInitialPolicyAlwaysGrants(heap, r, principal, policyDocument) ==
    LET p == IF principal = NoPrincipal THEN AccountRootPrincipal ELSE principal
        given == [r EXCEPT !.cfnRepository.permissionsPolicyDocument = policyDocument]
        read == AllowReadFromRepository(heap, given, p)
    IN AllowWriteToRepository(read.heap, read.repo, p, <<Wildcard>>)

\* The default grants of the constructor, or the supplied document.
RepositoryInitialPolicy(heap, r, principal, policyDocument) ==
    IF policyDocument = 0
    THEN LET p == IF principal = NoPrincipal THEN AccountRootPrincipal ELSE principal
             read == AllowReadFromRepository(heap, r, p)
         IN AllowWriteToRepository(read.heap, read.repo, p, <<Wildcard>>)
    ELSE [heap |-> heap,
          repo |-> [r EXCEPT !.cfnRepository.permissionsPolicyDocument = policyDocument],
          statementAdded |-> FALSE]

\* The Repository object as the constructor has it before the policy is set.
RepositoryObject(id, repositoryName, description, dom, upstreams, externalConnections) ==
    [kind |-> "Repository", id |-> id,
     repositoryName |-> repositoryName,
     repositoryArn |-> AttrToken(id, "Arn"),
     repositoryDomain |-> dom,
     repositoryDescription |-> description,
     cfnRepository |->
         [domainName |-> Coalesce(domains[dom].domainName, EmptyString),
          domainOwner |-> domains[dom].domainOwner,
          repositoryName |-> repositoryName,
          description |-> description,
          upstreams |-> UpstreamNames(upstreams),
          externalConnections |-> externalConnections,
          permissionsPolicyDocument |-> 0],
     dependencies |-> UpstreamDependencies(upstreams)]

\* new Repository(scope, id, {repositoryName, description, repositoryDomain,
\*                            upstreams, externalConnections, principal, policyDocument})
NewRepository(name, description, dom, upstreams, externalConnections, principal, policyDocument) ==
    LET id == NodeId(TopLevel + 1)
        repositoryName == Coalesce(name, id)
        err == RepositoryValidateProps(repositoryName, domains[dom].domainName,
                                       description)
        built == RepositoryInitialPolicy(
                     docs,
                     RepositoryObject(id, repositoryName, description, dom,
                                      upstreams, externalConnections),
                     principal, policyDocument)
    IN /\ dom \in DOMAIN domains
       /\ last' = [op |-> "new Repository",
                   self |-> IF err = "" THEN Len(repos) + 1 ELSE 0,
                   ok |-> err = "", error |-> err,
                   name |-> name, repositoryDomain |-> dom,
                   upstreams |-> upstreams,
                   externalConnections |-> externalConnections,
                   principal |-> principal, policyDocument |-> policyDocument]
       /\ UNCHANGED domains
       /\ IF err # ""
          THEN /\ constructs' = constructs \cup {<<id>>}
               /\ UNCHANGED <<repos, docs>>
          ELSE /\ constructs' = constructs \cup {<<id>>, <<id, ResourceId>>}
               /\ repos' = Append(repos, built.repo)
               /\ docs' = built.heap

\* A mutant of WithUpstreamNames: called with no repository, the list is
\* left undefined instead of being set to the empty list.
WithUpstreamNamesUndefinedWhenEmpty(repository) ==
    IF repository = << >> THEN UndefinedList
    ELSE [i \in 1..Len(repository) |->
             OrElse(repos[repository[i]].repositoryName, EmptyString)]

\* this.cfnRepository.upstreams = repository.map((f) => f.repositoryName || "")
WithUpstreamNames(repository) ==
    [i \in 1..Len(repository) |->
        OrElse(repos[repository[i]].repositoryName, EmptyString)]

\* r.withUpstream(...repository)
WithUpstream(r, repository) ==
    /\ repos[r].kind = "Repository"
    /\ repos' = [repos EXCEPT
                    ![r].cfnRepository.upstreams = WithUpstreamNames(repository)]
    /\ last' = [op |-> "withUpstream", self |-> r, ok |-> TRUE, error |-> "",
                repository |-> repository,
                before |-> repos[r].cfnRepository.upstreams]
    /\ UNCHANGED <<domains, docs, constructs>>

\* A mutant of WithExternalConnectionsList: the connections given are added
\* to the ones the repository has.
WithExternalConnectionsListMerging(r, externalConnections) ==
    IF repos[r].cfnRepository.externalConnections = Undefined
    THEN externalConnections
    ELSE repos[r].cfnRepository.externalConnections \o externalConnections

\* The external-connection list of r after r.withExternalConnections(...).
WithExternalConnectionsList(r, externalConnections) ==
    IF Len(externalConnections) # 0
    THEN externalConnections
    ELSE repos[r].cfnRepository.externalConnections

\* r.withExternalConnections(...externalConnections)
WithExternalConnections(r, externalConnections) ==
    /\ repos[r].kind = "Repository"
    /\ repos' = [repos EXCEPT ![r].cfnRepository.externalConnections =
                                  WithExternalConnectionsList(r, externalConnections)]
    /\ last' = [op |-> "withExternalConnections", self |-> r, ok |-> TRUE,
                error |-> "", externalConnections |-> externalConnections,
                before |-> repos[r].cfnRepository.externalConnections]
    /\ UNCHANGED <<domains, docs, constructs>>

\* r.assignDomain(domain): the repository object afterwards.
AssignDomain(r, domain) ==
    [r EXCEPT !.cfnRepository.domainName = Coalesce(domain.domainName, EmptyString)]

\* r.assignDomain(domain), called on a Repository with any domain, built or
\* imported.
AssignDomainCall(r, d) ==
    /\ repos[r].kind = "Repository"
    /\ repos' = [repos EXCEPT ![r] = AssignDomain(repos[r], domains[d])]
    /\ last' = [op |-> "assignDomain", self |-> r, ok |-> TRUE, error |-> "",
                domain |-> d]
    /\ UNCHANGED <<domains, docs, constructs>>

\* d.addRepositories(...repositories): the repositories are assigned in turn;
\* at an imported repository the call fails with a TypeError, and the ones
\* before it stay assigned.
AddRepositories(d, repositories) ==
    LET imported == {i \in DOMAIN repositories :
                         repos[repositories[i]].kind # "Repository"}
        stop == IF imported = {} THEN 0
                ELSE CHOOSE i \in imported : \A j \in imported : i <= j
        assigned == IF stop = 0 THEN repositories
                    ELSE SubSeq(repositories, 1, stop - 1)
    IN /\ domains[d].kind = "Domain"
       /\ repos' = [i \in DOMAIN repos |->
                       IF \E k \in DOMAIN assigned : assigned[k] = i
                       THEN AssignDomain(repos[i], domains[d])
                       ELSE repos[i]]
       /\ last' = [op |-> "addRepositories", self |-> d, ok |-> stop = 0,
                   error |-> IF stop = 0 THEN ""
                             ELSE "r.assignDomain is not a function",
                   repositories |-> repositories]
       /\ UNCHANGED <<domains, docs, constructs>>

\* A package of a repository policy: its format, namespace and name.
PolicyRepositoryPackage(packageFormat, packageNamespace, packageName) ==
    [packageFormat |-> packageFormat, packageNamespace |-> packageNamespace,
     packageName |-> packageName]

PolicyRepositoryAnyPackage == PolicyRepositoryPackage(<<"*">>, <<"*">>, <<"*">>)

\* A mutant of PackageArn: the owner and the domain are the repository's
\* even when the wildcard scope is asked for.
PackageArnOwnDomainAlways(r, repositoryPackage, useResourceArns) ==
    LET scope == IF useResourceArns THEN Wildcard ELSE Undefined
    IN FormatArn(scope, <<"codeartifact">>, scope, scope, <<"package">>,
                 Join(<<domains[r.repositoryDomain].domainOwner,
                        domains[r.repositoryDomain].domainName,
                        repositoryPackage.packageFormat,
                        repositoryPackage.packageNamespace,
                        repositoryPackage.packageName>>, "/"))

\* repo.packageArn(repositoryPackage, useResourceArns) on repository object r.
PackageArn(r, repositoryPackage, useResourceArns) ==
    LET repositoryDomainOwner == IF useResourceArns THEN Wildcard
                                 ELSE domains[r.repositoryDomain].domainOwner
        repositoryDomainName == IF useResourceArns THEN Wildcard
                                ELSE domains[r.repositoryDomain].domainName
        scope == IF useResourceArns THEN Wildcard ELSE Undefined
    IN FormatArn(scope, <<"codeartifact">>, scope, scope, <<"package">>,
                 Join(<<repositoryDomainOwner, repositoryDomainName,
                        repositoryPackage.packageFormat,
                        repositoryPackage.packageNamespace,
                        repositoryPackage.packageName>>, "/"))

\* r.packageArn(repositoryPackage, useResourceArns): nothing changes but the
\* record of the call, which holds the ARN returned.
PackageArnCall(r, repositoryPackage, useResourceArns) ==
    \E arn \in {PackageArn(repos[r], repositoryPackage, useResourceArns)} :
        /\ repos[r].kind = "Repository"
        /\ last' = [op |-> "packageArn", self |-> r, ok |-> TRUE, error |-> "",
                    repositoryPackage |-> repositoryPackage,
                    useResourceArns |-> useResourceArns, result |-> arn]
        /\ UNCHANGED <<domains, repos, docs, constructs>>

\* Repository.allowWriteDeleteOnRepository(principal, resources)
AllowWriteDeleteOnRepository(heap, r, principal, resources) ==
    RepositoryAddToResourcePolicy(heap, r,
        Statement(principal,
                  <<"codeartifact:PublishPackageVersion",
                    "codeartifact:PutPackageMetadata",
                    "codeartifact:DeletePackageVersions">>, resources))

\* Repository.allowWriteToRepositoryPackages(principal, repositoryPackages)
AllowWriteToRepositoryPackages(heap, r, principal, repositoryPackages) ==
    AllowWriteToRepository(heap, r, principal,
        [i \in DOMAIN repositoryPackages |-> PackageArn(r, repositoryPackages[i], TRUE)])

\* Repository.allowWriteDeleteOnRepositoryPackages(principal, repositoryPackages)
AllowWriteDeleteOnRepositoryPackages(heap, r, principal, repositoryPackages) ==
    AllowWriteDeleteOnRepository(heap, r, principal,
        [i \in DOMAIN repositoryPackages |-> PackageArn(r, repositoryPackages[i], TRUE)])

\* The static action tables of perms.ts that only the two grants below use.
REPOSITORY_ASSOCIATE_ACTIONS ==
    <<"codeartifact:AssociateExternalConnection",
      "codeartifact:AssociateWithDownstreamRepository">>
REPOSITORY_DELETE_PACKAGE_ACTIONS == <<"codeartifact:DeletePackageVersions">>

\* Repository.grantReadAssociate(identity)
GrantReadAssociate(heap, r, identity) ==
    RepositoryGrant(heap, r, identity,
                    REPOSITORY_READ_ACTIONS \o REPOSITORY_ASSOCIATE_ACTIONS, <<Wildcard>>)

\* Repository.grantReadWriteDeletePackage(identity, packages), packages
\* being [PolicyRepositoryAnyPackage] when the caller gives none. An optional
\* argument is << >> when the caller leaves it out and <<list>> when the
\* caller gives list.
GrantReadWriteDeletePackage(heap, r, identity, packages) ==
    LET given == IF packages = << >> THEN <<PolicyRepositoryAnyPackage>>
                 ELSE packages[1]
    IN RepositoryGrant(heap, r, identity,
                       REPOSITORY_READ_ACTIONS \o REPOSITORY_WRITE_ACTIONS
                           \o REPOSITORY_DELETE_PACKAGE_ACTIONS,
                       [i \in DOMAIN given |-> PackageArn(r, given[i], TRUE)])

\* repo.<method>(identity, ...) for the grant methods and for
\* allowDeleteFromRepository. scope is what the caller gives after the
\* identity: the packages of grantReadWriteDeletePackage, the resource ARNs of
\* grant and of allowDeleteFromRepository, << >> when nothing is given; actions is the action list of a direct call of grant.
RepositoryGrantCall(r, method, identity, actions, scope) ==
    LET resources == IF scope = << >> THEN <<Wildcard>> ELSE scope[1]
    IN \E out \in {CASE method = "grantRead" -> GrantRead(docs, repos[r], identity)
                     [] method = "grantReadAssociate" ->
                            GrantReadAssociate(docs, repos[r], identity)
                     [] method = "grantWrite" -> GrantWrite(docs, repos[r], identity)
                     [] method = "grantReadWrite" ->
                            GrantReadWrite(docs, repos[r], identity)
                     [] method = "grantReadWriteDeletePackage" ->
                            GrantReadWriteDeletePackage(docs, repos[r], identity, scope)
                     [] method = "grant" ->
                            RepositoryGrant(docs, repos[r], identity, actions, resources)
                     [] method = "allowDeleteFromRepository" ->
                            AllowDeleteFromRepository(docs, repos[r], identity,
                                                      resources)} :
           /\ repos[r].kind = "Repository"
           /\ docs' = out.heap
           /\ repos' = [repos EXCEPT ![r] = out.repo]
           /\ last' = [op |-> method, self |-> r, ok |-> TRUE, error |-> "",
                       principal |-> identity, actions |-> actions,
                       scope |-> scope]
           /\ UNCHANGED <<domains, constructs>>

\* r.allow<...>(principal, ...). scope is what the caller gives after the
\* principal: the resources of allowWriteToRepository,
\* allowDeleteFromRepository and allowWriteDeleteOnRepository, the packages
\* of the two ...Packages methods, << >> when nothing is given
\* (allowReadFromRepository takes nothing). The ...Packages methods have no
\* default and fail on repositoryPackages.map when no list is given.
RepositoryAllowCall(r, method, principal, scope) ==
    LET resources == IF scope = << >> THEN <<Wildcard>> ELSE scope[1]
        packaged == method \in {"allowWriteToRepositoryPackages",
                                "allowWriteDeleteOnRepositoryPackages"}
    IN IF packaged /\ scope = << >>
       THEN /\ repos[r].kind = "Repository"
            /\ last' = [op |-> method, self |-> r, ok |-> FALSE,
                        error |-> "Cannot read properties of undefined (reading 'map')",
                        principal |-> principal, scope |-> scope,
                        statementAdded |-> FALSE]
            /\ UNCHANGED <<domains, repos, docs, constructs>>
       ELSE \E out \in {CASE method = "allowReadFromRepository" ->
                                AllowReadFromRepository(docs, repos[r], principal)
                          [] method = "allowWriteToRepository" ->
                                AllowWriteToRepository(docs, repos[r], principal,
                                                       resources)
                          [] method = "allowDeleteFromRepository" ->
                                AllowDeleteFromRepository(docs, repos[r], principal,
                                                          resources)
                          [] method = "allowWriteDeleteOnRepository" ->
                                AllowWriteDeleteOnRepository(docs, repos[r], principal,
                                                             resources)
                          [] method = "allowWriteToRepositoryPackages" ->
                                AllowWriteToRepositoryPackages(docs, repos[r],
                                                               principal, scope[1])
                          [] method = "allowWriteDeleteOnRepositoryPackages" ->
                                AllowWriteDeleteOnRepositoryPackages(docs, repos[r],
                                                                     principal, scope[1])} :
                /\ repos[r].kind = "Repository"
                /\ docs' = out.heap
                /\ repos' = [repos EXCEPT ![r] = out.repo]
                /\ last' = [op |-> method, self |-> r, ok |-> TRUE, error |-> "",
                            principal |-> principal, scope |-> scope,
                            statementAdded |-> out.statementAdded]
                /\ UNCHANGED <<domains, constructs>>

\* A mutant of RepositoryEventPattern: the owner in the filter is the account
\* of the stack.
RepositoryEventPatternStackOwner(r) ==
    [source |-> <<"aws.codeartifact">>,
     detail |-> [domainName |-> <<domains[r.repositoryDomain].domainName>>,
                 domainOwner |-> <<StackAccount>>,
                 repositoryName |-> <<r.repositoryName>>],
     detailType |-> UndefinedList]

\* The event pattern onEvent gives the rule of repository object r.
RepositoryEventPattern(r) ==
    [source |-> <<"aws.codeartifact">>,
     detail |-> [domainName |-> <<domains[r.repositoryDomain].domainName>>,
                 domainOwner |-> <<domains[r.repositoryDomain].domainOwner>>,
                 repositoryName |-> <<r.repositoryName>>],
     detailType |-> UndefinedList]

\* new events.Rule(this, id, options) with the pattern and the target of
\* onEvent: an absent target adds none.
RepositoryEventRule(r, id, target) ==
    [id |-> id, eventPattern |-> RepositoryEventPattern(r),
     targets |-> IF target = Undefined THEN << >> ELSE <<target>>]

\* rule.addEventPattern({detailType: [...]}) of onPackageVersionStateChange.
WithPackageVersionStateChange(rule) ==
    [rule EXCEPT !.eventPattern.detailType =
                     <<"CodeArtifact Package Version State Change">>]

\* r.onEvent(id, {target}) and r.onPackageVersionStateChange(id, {target}):
\* the rule becomes a child of the repository; an id the repository already
\* has a child under is refused by the construct tree.
OnEventCall(r, method, id, target) ==
    \E rule \in {RepositoryEventRule(repos[r], id, target)} :
        /\ repos[r].kind = "Repository"
        /\ IF <<repos[r].id, id>> \in constructs
           THEN /\ last' = [op |-> method, self |-> r, ok |-> FALSE,
                            error |-> "There is already a Construct with name '"
                                          \o Text(id) \o "'",
                            id |-> id, target |-> target, rule |-> rule]
                /\ UNCHANGED constructs
           ELSE /\ last' = [op |-> method, self |-> r, ok |-> TRUE, error |-> "",
                            id |-> id, target |-> target,
                            rule |-> IF method = "onPackageVersionStateChange"
                                     THEN WithPackageVersionStateChange(rule)
                                     ELSE rule]
                /\ constructs' = constructs \cup {<<repos[r].id, id>>}
        /\ UNCHANGED <<domains, repos, docs>>

---------------------------------------------------------------------------
(* lib/repository.ts: ImportedRepository.                                  *)

RepositoryAttributes(repositoryArn, repositoryName, repositoryDomain) ==
    [repositoryArn |-> repositoryArn, repositoryName |-> repositoryName,
     repositoryDomain |-> repositoryDomain]

\* const domainRepo = arn.resourceName?.split("/") ?? ""
DomainRepo(arn) ==
    IF arn.resourceName = Undefined THEN << >> ELSE Split(arn.resourceName, "/")

\* this.repositoryName = domainRepo[...] of the ARN branch
ArnRepositoryName(domainRepo) == At(domainRepo, 1)

\* the domainName handed to Domain.fromDomainAttributes in the ARN branch
ArnDomainName(domainRepo) == At(domainRepo, 2)

\* A mutant of ImportedRepositoryError: the check of repositoryArn against
\* repositoryDomain is missing.
ImportedRepositoryErrorNoDomainCheck(props) ==
    IF Truthy(props.repositoryArn) /\ Truthy(props.repositoryName)
    THEN "repositoryArn and repositoryName are mutually exclusive"
    ELSE IF ~Truthy(props.repositoryArn)
            /\ ~(Truthy(props.repositoryName) /\ props.repositoryDomain # 0)
    THEN "Either repositoryArn or repositoryName, repositoryDomain must be provided"
    ELSE ""

\* The three checks that open the constructor of ImportedRepository: "" or
\* the message of the error thrown.
ImportedRepositoryError(props) ==
    IF Truthy(props.repositoryArn) /\ Truthy(props.repositoryName)
    THEN "repositoryArn and repositoryName are mutually exclusive"
    ELSE IF Truthy(props.repositoryArn) /\ props.repositoryDomain # 0
    THEN "repositoryDomain and repositoryArn are mutually exclusive"
    ELSE IF ~Truthy(props.repositoryArn)
            /\ ~(Truthy(props.repositoryName) /\ props.repositoryDomain # 0)
    THEN "Either repositoryArn or repositoryName, repositoryDomain must be provided"
    ELSE ""

\* new ImportedRepository(scope, id, props): ok with the repository built and
\* the domain it imported for itself (if any), or the message of the error.
ImportedRepository(id, props, nextDomain) ==
    LET base == [kind |-> "ImportedRepository", id |-> id,
                 repositoryName |-> Undefined, repositoryArn |-> Undefined,
                 repositoryDomain |-> 0, repositoryDescription |-> Undefined,
                 cfnRepository |-> NoCfnRepository, dependencies |-> {}]
        noDomain == ImportedDomain(ImportedDomainId,
                                   DomainAttributes(Undefined, Undefined, Undefined))
        fail(msg) == [ok |-> FALSE, error |-> msg, repo |-> base,
                      importsDomain |-> FALSE, domain |-> noDomain.object]
        arn == SplitArn(props.repositoryArn)
        domainRepo == DomainRepo(arn)
        dom == ImportedDomain(ImportedDomainId,
                   DomainAttributes(Undefined, ArnDomainName(domainRepo),
                                    Coalesce(arn.account, EmptyString)))
    IN IF ImportedRepositoryError(props) # ""
       THEN fail(ImportedRepositoryError(props))
       ELSE IF Truthy(props.repositoryArn)
       THEN IF ~arn.ok
            THEN fail("ARNs must start with \"arn:\" and have at least 6 components")
            ELSE IF ~dom.ok THEN fail(dom.error)
            ELSE [ok |-> TRUE, error |-> "",
                  repo |-> [base EXCEPT !.repositoryName = ArnRepositoryName(domainRepo),
                                        !.repositoryDomain = nextDomain,
                                        !.repositoryArn = props.repositoryArn],
                  importsDomain |-> TRUE, domain |-> dom.object]
       ELSE [ok |-> TRUE, error |-> "",
             repo |-> [base EXCEPT !.repositoryName = props.repositoryName,
                                   !.repositoryDomain = props.repositoryDomain],
             importsDomain |-> FALSE, domain |-> noDomain.object]

\* Repository.fromRepositoryAttributes(stack, id, attrs) / fromRepositoryArn.
ImportRepository(props) ==
    \E out \in {ImportedRepository(NodeId(TopLevel + 1), props, Len(domains) + 1)} :
    LET id == NodeId(TopLevel + 1)
        reachedDomain == ImportedRepositoryError(props) = ""
                         /\ Truthy(props.repositoryArn)
                         /\ SplitArn(props.repositoryArn).ok
    IN /\ props.repositoryDomain \in {0} \cup DOMAIN domains
       /\ constructs' = constructs \cup {<<id>>}
                            \cup (IF reachedDomain THEN {<<id, ImportedDomainId>>} ELSE {})
       /\ repos' = IF out.ok THEN Append(repos, out.repo) ELSE repos
       /\ domains' = IF out.ok /\ out.importsDomain
                     THEN Append(domains, out.domain) ELSE domains
       /\ last' = [op |-> "Repository.fromRepositoryAttributes",
                   self |-> IF out.ok THEN Len(repos) + 1 ELSE 0,
                   ok |-> out.ok, error |-> out.error, props |-> props]
       /\ UNCHANGED docs

---------------------------------------------------------------------------
(* The caller: the inputs it chooses from.                                 *)

DomainNames == {<<"d", "a">>, <<"d", "b">>}
RepositoryNames == {<<"r", "a">>, <<"r", "b">>}

\* The name the caller gives the n-th domain: no two share one.
DomainNameOf(n) == <<"d", "o", "m", "-", ToString(n)>>

\* The name the caller gives the n-th repository: no two share one.
RepositoryNameOf(n) == <<"r", "e", "p", "o", "-", ToString(n)>>

NpmNpmjs == "public:npmjs"
PypiPypi == "public:pypi"
ExternalConnectionLists == {<< >>, <<NpmNpmjs>>, <<PypiPypi>>}

Accounts == {<<"123456789012">>, <<"444455556666">>}

DomainArn(account, domainName) ==
    <<"arn", ":", "aws", ":", "codeartifact", ":", "region-id", ":">> \o account
    \o <<":", "domain", "/">> \o domainName

RepositoryArn(account, domainName, repositoryName) ==
    <<"arn", ":", "aws", ":", "codeartifact", ":", "region-id", ":">> \o account
    \o <<":", "repository", "/">> \o domainName \o <<"/">> \o repositoryName

Principals == {NoPrincipal, "alice"}

\* The identities grants are made to.
Grantees == {AccountRootPrincipal, "alice"}

\* Every list of at most n distinct existing repositories.
RepositoryLists(n) ==
    {l \in UNION {[1..k -> DOMAIN repos] : k \in 0..n} :
        \A i, j \in DOMAIN l : l[i] = l[j] => i = j}

Init ==
    /\ domains = << >>
    /\ repos = << >>
    /\ docs = << >>
    /\ constructs = {}
    /\ last = [op |-> "init", self |-> 0, ok |-> TRUE, error |-> ""]
    /\ calls = 0

\* A constructor or an import: no method call is counted.
Declaring(action) == action /\ UNCHANGED calls

\* A method call on an object built earlier.
Calling(action) == calls < MaxCalls /\ action /\ calls' = calls + 1

---------------------------------------------------------------------------
(* Spec: one domain and the repositories declared in it, each with its     *)
(* upstreams and external connections given to the constructor.            *)

DeclareDomain ==
    \E name \in DomainNames :
        /\ domains = << >>
        /\ Declaring(NewDomain(name, NoKey, NoPrincipal, 0))

DeclareRepository ==
    \E dom \in DOMAIN domains,
       upstreams \in {NoUpstreams} \cup RepositoryLists(MaxUpstreams),
       externalConnections \in {Undefined, <<NpmNpmjs>>} :
        /\ Len(repos) < MaxRepos
        /\ Declaring(NewRepository(RepositoryNameOf(Len(repos) + 1), Undefined, dom,
                                   upstreams, externalConnections, NoPrincipal, 0))

Next ==
    \/ DeclareDomain
    \/ DeclareRepository

Spec == Init /\ [][Next]_vars

---------------------------------------------------------------------------
(* SpecMutate: one domain, its repositories, and withUpstream /            *)
(* withExternalConnections called on them afterwards.                      *)

MutateDeclareRepository ==
    \E dom \in DOMAIN domains, upstreams \in {NoUpstreams} \cup RepositoryLists(1) :
        /\ Len(repos) < MaxMutable
        /\ Declaring(NewRepository(RepositoryNameOf(Len(repos) + 1), Undefined, dom,
                                   upstreams, Undefined, NoPrincipal, 0))

\* One of the mutator calls the caller makes on a repository.
Mutating(action) == calls < MaxMutations /\ action /\ calls' = calls + 1

CallWithUpstream ==
    \E r \in DOMAIN repos, repository \in RepositoryLists(MaxNewUpstreams) :
        Mutating(WithUpstream(r, repository))

CallWithExternalConnections ==
    \E r \in DOMAIN repos, externalConnections \in ExternalConnectionLists :
        Mutating(WithExternalConnections(r, externalConnections))

NextMutate ==
    \/ DeclareDomain
    \/ MutateDeclareRepository
    \/ CallWithUpstream
    \/ CallWithExternalConnections

SpecMutate == Init /\ [][NextMutate]_vars

---------------------------------------------------------------------------
(* SpecAssign: several domains, built and imported, repositories declared  *)
(* in them or imported, and addRepositories / assignDomain called          *)
(* afterwards.                                                             *)

AssignDeclareDomain ==
    /\ Len(domains) < MaxDomains
    /\ repos = << >>
    /\ TopLevel < MaxDomains + MaxMutable
    /\ Declaring(NewDomain(DomainNameOf(Len(domains) + 1), NoKey, NoPrincipal, 0))

\* One domain is imported, by name, by ARN or with nothing given, through
\* either version of Domain.fromDomainAttributes.
AssignImportDomain ==
    \E attrs \in {DomainAttributes(Undefined, Undefined, Undefined),
                  DomainAttributes(Undefined, DomainNameOf(Len(domains) + 1), Undefined),
                  DomainAttributes(DomainArn(<<"123456789012">>,
                                             DomainNameOf(Len(domains) + 1)),
                                   Undefined, Undefined)} :
        /\ Len(domains) < MaxDomains
        /\ repos = << >>
        /\ \A d \in DOMAIN domains : domains[d].kind = "Domain"
        /\ TopLevel < MaxDomains + MaxMutable
        /\ \/ Declaring(ImportDomain(attrs))
           \/ Declaring(FromDomainAttributes(attrs))

AssignDeclareRepository ==
    \E dom \in DOMAIN domains :
        /\ Len(repos) < MaxMutable
        /\ calls = 0
        /\ domains[dom].kind = "Domain"
        /\ TopLevel < MaxDomains + MaxMutable
        /\ Declaring(NewRepository(RepositoryNameOf(Len(repos) + 1), Undefined, dom,
                                   NoUpstreams, Undefined, NoPrincipal, 0))

AssignImportRepository ==
    \E dom \in DOMAIN domains :
        /\ Len(repos) < MaxMutable
        /\ calls = 0
        /\ \A r \in DOMAIN repos : repos[r].kind = "Repository"
        /\ TopLevel < MaxDomains + MaxMutable
        /\ Declaring(ImportRepository(RepositoryAttributes(
               Undefined, RepositoryNameOf(Len(repos) + 1), dom)))

CallAddRepositories ==
    \E d \in DOMAIN domains, repositories \in RepositoryLists(MaxUpstreams) :
        Calling(AddRepositories(d, repositories))

CallAssignDomain ==
    \E r \in DOMAIN repos, d \in DOMAIN domains :
        Calling(AssignDomainCall(r, d))

NextAssign ==
    \/ AssignDeclareDomain
    \/ AssignImportDomain
    \/ AssignDeclareRepository
    \/ AssignImportRepository
    \/ CallAddRepositories
    \/ CallAssignDomain

SpecAssign == Init /\ [][NextAssign]_vars

---------------------------------------------------------------------------
(* SpecPolicy: domains with and without a policy document of the caller,   *)
(* and addToResourcePolicy called on them.                                 *)

\* const p = new PolicyDocument(); p.addStatements(statement)
CreatePolicyDocument(statement) ==
    /\ docs' = Append(docs, <<statement>>)
    /\ last' = [op |-> "new PolicyDocument", self |-> Len(docs) + 1,
                ok |-> TRUE, error |-> "", statement |-> statement]
    /\ UNCHANGED <<domains, repos, constructs>>

PolicyCreateDocument ==
    \E statement \in CallerStatements :
        /\ Len(docs) < MaxDocs
        /\ Declaring(CreatePolicyDocument(statement))

PolicyDeclareDomain ==
    \E name \in DomainNames, principal \in Principals,
       policyDocument \in {0} \cup DOMAIN docs :
        /\ Len(domains) < MaxDomains
        /\ Declaring(NewDomain(name, NoKey, principal, policyDocument))

CallDomainAddToResourcePolicy ==
    \E d \in DOMAIN domains, statement \in CallerStatements :
        Calling(DomainAddToResourcePolicy(d, statement))

NextPolicy ==
    \/ PolicyCreateDocument
    \/ PolicyDeclareDomain
    \/ CallDomainAddToResourcePolicy

SpecPolicy == Init /\ [][NextPolicy]_vars

---------------------------------------------------------------------------
(* SpecRepoPolicy: one domain and repositories with and without a policy   *)
(* document of the caller.                                                 *)

RepoPolicyDeclareRepository ==
    \E dom \in DOMAIN domains, principal \in Principals,
       policyDocument \in {0} \cup DOMAIN docs :
        /\ Len(repos) < MaxMutable
        /\ Declaring(NewRepository(RepositoryNameOf(Len(repos) + 1), Undefined, dom,
                                   NoUpstreams, Undefined, principal, policyDocument))

NextRepoPolicy ==
    \/ PolicyCreateDocument
    \/ DeclareDomain
    \/ RepoPolicyDeclareRepository

SpecRepoPolicy == Init /\ [][NextRepoPolicy]_vars

---------------------------------------------------------------------------
(* SpecDomainGrant: domains with and without a policy document of the      *)
(* caller, and grants made on them.                                        *)

DomainGrantMethods == {"Domain.grantRead", "Domain.grantLogin", "Domain.grantCreate"}

CallDomainGrant ==
    \E d \in DOMAIN domains, method \in DomainGrantMethods, principal \in Grantees :
        Calling(DomainGrantCall(d, method, principal))

NextDomainGrant ==
    \/ PolicyCreateDocument
    \/ PolicyDeclareDomain
    \/ CallDomainGrant

SpecDomainGrant == Init /\ [][NextDomainGrant]_vars

---------------------------------------------------------------------------
(* SpecValidate: a stack in which a domain and then a repository are       *)
(* declared under names of every kind: good ones, ones of a wrong shape,   *)
(* ones that are too long, and values known only at deployment.            *)

\* "a".repeat(n)
Repeat(c, n) == [i \in 1..n |-> c]

\* Every name of one or two characters of the alphabet.
ShortNames == UNION {[1..n -> {"a", "9", "-", "@"}] : n \in 1..2}

UnresolvedNames == {StackAccount, AttrToken(<<"k", "e", "y">>, "Arn")}

ValidatedDomainNames ==
    {Undefined}
    \cup ShortNames
    \cup {<<"m", "y", "-", "d", "o", "m", "a", "i", "n">>, <<"a", "-", "9">>}
    \cup {Repeat("a", n) : n \in 3..MaxDomainNameLength}
    \cup UnresolvedNames

ValidatedRepositoryNames ==
    {Undefined}
    \cup ShortNames
    \cup {<<"m", "y", "-", "r", "e", "p", "o">>, <<"a", ".", "_">>}
    \cup {Repeat("@", 5), Repeat("@", MaxRepositoryNameLength)}
    \cup {Repeat("a", n) : n \in 3..MaxRepositoryNameLength}

\* No key, a key of the account, and a key whose ARN is white space only.
EncryptionKeys ==
    {NoKey,
     [keyArn |-> <<"arn", ":", "aws", ":", "kms", ":", "region-id", ":",
                   "123456789012", ":", "key", "/", "k", "1">>,
      keyId |-> <<"k", "1">>],
     [keyArn |-> <<"\r">>, keyId |-> <<"k", "2">>]}

ValidateDeclareDomain ==
    \E name \in ValidatedDomainNames, key \in EncryptionKeys :
        /\ domains = << >>
        /\ TopLevel < MaxAttempts
        /\ Declaring(NewDomain(name, key, NoPrincipal, 0))

ValidateDeclareRepository ==
    \E name \in ValidatedRepositoryNames :
        /\ domains # << >>
        /\ repos = << >>
        /\ TopLevel < MaxAttempts
        /\ Declaring(NewRepository(name, Undefined, 1, NoUpstreams, Undefined,
                                   NoPrincipal, 0))

NextValidate ==
    \/ ValidateDeclareDomain
    \/ ValidateDeclareRepository

SpecValidate == Init /\ [][NextValidate]_vars

---------------------------------------------------------------------------
(* SpecUse: domains built and imported, repositories declared in them,     *)
(* and package ARNs and event rules asked of the repositories.             *)

Packages ==
    {PolicyRepositoryAnyPackage,
     PolicyRepositoryPackage(<<"npm">>, <<"s", "c">>, <<"p", "k">>),
     PolicyRepositoryPackage(<<"pypi">>, EmptyString, <<"q">>)}


UseImportDomain ==
    \E domainOwner \in {Undefined, <<"123456789012">>} :
        /\ domains # << >>
        /\ Len(domains) < MaxDomains
        /\ Declaring(ImportDomain(DomainAttributes(
               Undefined, DomainNameOf(Len(domains) + 1), domainOwner)))

UseDeclareRepository ==
    \E dom \in DOMAIN domains :
        /\ Len(repos) < MaxMutable
        /\ Declaring(NewRepository(RepositoryNameOf(Len(repos) + 1), Undefined, dom,
                                   NoUpstreams, Undefined, NoPrincipal, 0))

CallPackageArn ==
    \E r \in DOMAIN repos, repositoryPackage \in Packages,
       useResourceArns \in BOOLEAN :
        Calling(PackageArnCall(r, repositoryPackage, useResourceArns))

CallOnEvent ==
    \E r \in DOMAIN repos, id \in {<<"subscription">>},
       target \in {Undefined, <<"target">>},
       method \in {"onEvent", "onPackageVersionStateChange"} :
        Calling(OnEventCall(r, method, id, target))

NextUse ==
    \/ DeclareDomain
    \/ UseImportDomain
    \/ UseDeclareRepository
    \/ CallPackageArn
    \/ CallOnEvent

SpecUse == Init /\ [][NextUse]_vars

---------------------------------------------------------------------------
(* SpecAppend: one domain, repositories with and without a policy document *)
(* of the caller (which two repositories may share), and statements added  *)
(* to the repositories' policies afterwards.                               *)

AppendDeclareDomain ==
    /\ domains = << >>
    /\ Declaring(NewDomain(DomainNameOf(1), NoKey, NoPrincipal, 0))

AppendDeclareRepository ==
    \E dom \in DOMAIN domains, policyDocument \in {0} \cup DOMAIN docs :
        /\ Len(repos) < MaxMutable
        /\ calls = 0
        /\ Declaring(NewRepository(RepositoryNameOf(Len(repos) + 1), Undefined, dom,
                                   NoUpstreams, Undefined, NoPrincipal, policyDocument))

CallRepositoryAddToResourcePolicy ==
    \E r \in DOMAIN repos, statement \in CallerStatements :
        Mutating(RepositoryAddToResourcePolicyCall(r, statement))

\* The allow methods for alice with their default resources, and the two
\* ...Packages methods with one package.
CallRepositoryAllow ==
    \E r \in DOMAIN repos,
       call \in {<<method, << >>>> :
                    method \in {"allowReadFromRepository", "allowWriteToRepository",
                                "allowDeleteFromRepository",
                                "allowWriteDeleteOnRepository"}}
               \cup {<<method, << <<PolicyRepositoryPackage(<<"npm">>, <<"s", "c">>,
                                                            <<"p", "k">>)>> >> >> :
                       method \in {"allowWriteToRepositoryPackages",
                                   "allowWriteDeleteOnRepositoryPackages"}} :
        Mutating(RepositoryAllowCall(r, call[1], "alice", call[2]))

NextAppend ==
    \/ PolicyCreateDocument
    \/ AppendDeclareDomain
    \/ AppendDeclareRepository
    \/ CallRepositoryAddToResourcePolicy
    \/ CallRepositoryAllow

SpecAppend == Init /\ [][NextAppend]_vars

---------------------------------------------------------------------------
(* SpecGrant: one domain, repositories with and without a policy document  *)
(* of the caller, and grants made on them.                                 *)

RepositoryGrantMethods ==
    {"grantRead", "grantWrite", "grantReadWrite", "allowDeleteFromRepository"}

\* The four whole-repository methods for every grantee, and, for alice,
\* grantReadAssociate, grantReadWriteDeletePackage without and with a package
\* list, and grant called directly with and without resource ARNs.
CallRepositoryGrant ==
    \E r \in DOMAIN repos,
       call \in {<<method, identity, << >>, << >>>> :
                    method \in RepositoryGrantMethods, identity \in Grantees}
               \cup {<<"grantReadAssociate", "alice", << >>, << >>>>,
                     <<"grantReadWriteDeletePackage", "alice", << >>, << >>>>,
                     <<"grantReadWriteDeletePackage", "alice", << >>,
                       << <<PolicyRepositoryPackage(<<"npm">>, <<"s", "c">>, <<"p", "k">>)>> >> >>,
                     <<"grant", "alice", <<"codeartifact:ListPackages">>, << >>>>,
                     <<"grant", "alice", <<"codeartifact:ListPackages">>,
                       << <<RepositoryArn(<<"123456789012">>, DomainNameOf(1),
                                          RepositoryNameOf(1))>> >> >>} :
        Calling(RepositoryGrantCall(r, call[1], call[2], call[3], call[4]))

NextGrant ==
    \/ PolicyCreateDocument
    \/ AppendDeclareDomain
    \/ AppendDeclareRepository
    \/ CallRepositoryGrant

SpecGrant == Init /\ [][NextGrant]_vars

---------------------------------------------------------------------------
(* SpecImport: domains and repositories imported by ARN or by attributes.  *)

DomainArns ==
    {Undefined, EmptyString, <<"not-an-arn">>}
    \cup {DomainArn(a, n) : a \in Accounts, n \in DomainNames}

RepositoryArns ==
    {Undefined, EmptyString, <<"not-an-arn">>}
    \cup {RepositoryArn(a, d, r) : a \in Accounts, d \in {<<"d", "a">>},
                                   r \in RepositoryNames}

ImportADomain ==
    \E domainArn \in DomainArns \cup {domains[d].domainArn : d \in DOMAIN domains},
       domainName \in {Undefined, EmptyString} \cup DomainNames,
       domainOwner \in {Undefined, EmptyString} \cup Accounts :
        /\ TopLevel < MaxImports
        /\ Declaring(ImportDomain(DomainAttributes(domainArn, domainName, domainOwner)))

ImportARepository ==
    \E repositoryArn \in RepositoryArns,
       repositoryName \in {Undefined, EmptyString} \cup RepositoryNames,
       repositoryDomain \in {0} \cup DOMAIN domains :
        /\ TopLevel < MaxImports
        /\ Declaring(ImportRepository(
               RepositoryAttributes(repositoryArn, repositoryName, repositoryDomain)))

NextImport ==
    \/ ImportADomain
    \/ ImportARepository

SpecImport == Init /\ [][NextImport]_vars

---------------------------------------------------------------------------
(* The claims.                                                             *)

\* C1: Repository.fromRepositoryArn on the ARN
\* arn:<partition>:codeartifact:<region>:<account>:repository/<domainName>/<repositoryName>
\* returns a repository whose repositoryName is <repositoryName> and whose
\* owning domain has the domain name <domainName>.
C1_FromRepositoryArnNames ==
    \A a \in Accounts, d \in DomainNames, r \in RepositoryNames :
        (/\ last.op = "Repository.fromRepositoryAttributes"
         /\ last.props = RepositoryAttributes(RepositoryArn(a, d, r), Undefined, 0))
        => /\ last.ok
           /\ repos[last.self].repositoryName = r
           /\ repos[last.self].repositoryDomain \in DOMAIN domains
           /\ domains[repos[last.self].repositoryDomain].domainName = d

\* C2: every repository whose name is in a repository's underlying upstream
\* list is one of the build-order dependencies recorded for that repository.
C2_UpstreamsAreDependencies ==
    \A r \in DOMAIN repos :
        (repos[r].kind = "Repository" /\ repos[r].cfnRepository.upstreams # UndefinedList)
        => \A i \in DOMAIN repos[r].cfnRepository.upstreams :
               \A u \in DOMAIN repos :
                   repos[u].repositoryName = repos[r].cfnRepository.upstreams[i]
                   => u \in repos[r].dependencies

\* C3: a Repository constructed with upstreams [u1..un] has exactly the names
\* of u1..un, in that order, as its underlying upstream list, and has a
\* build-order dependency on each ui and on nothing else.
C3_ConstructorUpstreams ==
    (last.op = "new Repository" /\ last.ok /\ last.upstreams # NoUpstreams)
    => /\ repos[last.self].cfnRepository.upstreams =
              [i \in 1..Len(last.upstreams) |-> repos[last.upstreams[i]].repositoryName]
       /\ repos[last.self].dependencies =
              {last.upstreams[i] : i \in 1..Len(last.upstreams)}

\* C3 witness: a repository was constructed with two upstreams, given in the
\* reverse of the order of their declaration.
C3_Witness ==
    /\ last.op = "new Repository" /\ last.ok
    /\ last.upstreams = <<2, 1>>
    /\ repos[last.self].cfnRepository.upstreams = <<RepositoryNameOf(2), RepositoryNameOf(1)>>

\* C4: on a Domain constructed without a policy document, an
\* addToResourcePolicy(statement) that returns statementAdded = true leaves
\* the statement in the policy document emitted for the domain's resource.
C4_DomainStatementAdded ==
    (/\ last.op = "Domain.addToResourcePolicy"
     /\ domains[last.self].policyDocument = 0
     /\ last.statementAdded)
    => \E i \in DOMAIN DomainPermissionsPolicyDocument(docs, domains[last.self]) :
           DomainPermissionsPolicyDocument(docs, domains[last.self])[i] = last.statement

\* C5: on a Domain constructed with a policy document, addToResourcePolicy
\* returns statementAdded = false and changes no policy document (nor any
\* domain).
C5_DomainSuppliedPolicyUntouched ==
    [][(/\ last'.op = "Domain.addToResourcePolicy"
        /\ domains[last'.self].policyDocument # 0)
       => /\ ~last'.statementAdded
          /\ docs' = docs
          /\ domains' = domains]_vars

\* C5 witness: addToResourcePolicy was called on a domain that was given a
\* policy document, which still holds its one statement.
C5_Witness ==
    /\ last.op = "Domain.addToResourcePolicy"
    /\ domains[last.self].policyDocument # 0
    /\ ~last.statementAdded
    /\ Len(docs[domains[last.self].policyDocument]) = 1
    /\ docs[domains[last.self].policyDocument][1] # last.statement

\* C6: a Domain constructed without a policy document ends construction
\* with a resource policy that allows the given principal (the account root
\* when none is given) the login and the create-repository actions (and the
\* read actions).
C6_DomainDefaultGrants ==
    (last.op = "new Domain" /\ last.ok /\ last.policyDocument = 0)
    => LET p == IF last.principal = NoPrincipal THEN AccountRootPrincipal
                ELSE last.principal
           policy == DomainPermissionsPolicyDocument(docs, domains[last.self])
           allows(action) ==
               \E i \in DOMAIN policy :
                   /\ policy[i].effect = "Allow"
                   /\ \E k \in DOMAIN policy[i].principals : policy[i].principals[k] = p
                   /\ \E k \in DOMAIN policy[i].actions : policy[i].actions[k] = action
       IN /\ allows("codeartifact:GetAuthorizationToken")
          /\ allows("codeartifact:CreateRepository")

\* C7: a Repository constructed without a policy document gets a fresh
\* policy document of exactly two Allow statements for the given principal
\* (the account root when none is given): the read actions, then the write
\* actions, both on ['*']; constructed with a policy document it carries that
\* very document, to which nothing is added.
C7_RepositoryInitialPolicy ==
    [][(last'.op = "new Repository" /\ last'.ok)
       => LET ref == repos'[last'.self].cfnRepository.permissionsPolicyDocument
              p == IF last'.principal = NoPrincipal THEN AccountRootPrincipal
                   ELSE last'.principal
          IN IF last'.policyDocument = 0
             THEN /\ ref = Len(docs) + 1
                  /\ docs' = Append(docs,
                        <<[effect |-> "Allow", principals |-> <<p>>,
                           actions |-> <<"codeartifact:DescribePackageVersion",
                                         "codeartifact:DescribeRepository",
                                         "codeartifact:GetPackageVersionReadme",
                                         "codeartifact:GetRepositoryEndpoint",
                                         "codeartifact:ListPackageVersionAssets",
                                         "codeartifact:ListPackageVersionDependencies",
                                         "codeartifact:ListPackageVersions",
                                         "codeartifact:ListPackages",
                                         "codeartifact:ReadFromRepository">>,
                           resources |-> << <<"*">> >>],
                          [effect |-> "Allow", principals |-> <<p>>,
                           actions |-> <<"codeartifact:PublishPackageVersion",
                                         "codeartifact:PutPackageMetadata">>,
                           resources |-> << <<"*">> >>]>>)
             ELSE /\ ref = last'.policyDocument
                  /\ docs' = docs]_vars

\* C7 witness: one repository was constructed with the caller's policy
\* document and one without, for the principal alice.
C7_Witness ==
    /\ last.op = "new Repository" /\ last.ok
    /\ last.policyDocument # 0
    /\ repos[last.self].cfnRepository.permissionsPolicyDocument = last.policyDocument
    /\ \E r \in DOMAIN repos :
           /\ repos[r].cfnRepository.permissionsPolicyDocument # last.policyDocument
           /\ Len(docs[repos[r].cfnRepository.permissionsPolicyDocument]) = 2
           /\ docs[repos[r].cfnRepository.permissionsPolicyDocument][1].principals
                  = <<"alice">>

\* C8: after d.addRepositories(r1..rn) every ri has d as its domain:
\* ri.repositoryDomain is d.
C8_AddRepositoriesSetsDomain ==
    (last.op = "addRepositories" /\ last.ok)
    => \A i \in DOMAIN last.repositories :
           repos[last.repositories[i]].repositoryDomain = last.self

\* C9: importing a domain with a domain ARN together with a domain name, or
\* with a domain ARN together with a domain owner, fails with the error that
\* names the two, and no domain comes of it.
C9_DomainImportExclusive ==
    [][(/\ last'.op = "Domain.fromDomainAttributes"
        /\ Truthy(last'.props.domainArn)
        /\ (Truthy(last'.props.domainName) \/ Truthy(last'.props.domainOwner)))
       => /\ ~last'.ok
          /\ last'.self = 0
          /\ last'.error = (IF Truthy(last'.props.domainName)
                            THEN "domainArn and domainName are mutually exclusive"
                            ELSE "domainArn and domainOwner are mutually exclusive")
          /\ domains' = domains]_vars

\* C9 witness: an import with a domain ARN and a domain owner, and no domain
\* name, has failed.
C9_Witness ==
    /\ last.op = "Domain.fromDomainAttributes"
    /\ Truthy(last.props.domainArn)
    /\ ~Truthy(last.props.domainName)
    /\ Truthy(last.props.domainOwner)
    /\ ~last.ok

\* C10: importing a repository fails when an ARN comes with a repository
\* name, when an ARN comes with a domain, and when there is neither an ARN nor
\* both a name and a domain; it succeeds only for an ARN alone or for a name
\* and a domain together, and a failed import returns no repository.
C10_RepositoryImportExclusive ==
    [][last'.op = "Repository.fromRepositoryAttributes"
       => LET arn == Truthy(last'.props.repositoryArn)
              name == Truthy(last'.props.repositoryName)
              dom == last'.props.repositoryDomain # 0
          IN /\ (arn /\ name) => (~last'.ok /\ last'.error =
                    "repositoryArn and repositoryName are mutually exclusive")
             /\ (arn /\ ~name /\ dom) => (~last'.ok /\ last'.error =
                    "repositoryDomain and repositoryArn are mutually exclusive")
             /\ (~arn /\ ~(name /\ dom)) => (~last'.ok /\ last'.error =
                    "Either repositoryArn or repositoryName, repositoryDomain must be provided")
             /\ last'.ok => ((arn /\ ~name /\ ~dom) \/ (~arn /\ name /\ dom))
             /\ last'.ok => Len(repos') = Len(repos) + 1
             /\ ~last'.ok => (repos' = repos /\ domains' = domains /\ last'.self = 0)]_vars

\* C10 witness: an import by ARN alone has succeeded, and an import with an
\* ARN and the domain of the first has failed.
C10_Witness ==
    /\ last.op = "Repository.fromRepositoryAttributes"
    /\ Truthy(last.props.repositoryArn)
    /\ last.props.repositoryDomain # 0
    /\ ~Truthy(last.props.repositoryName)
    /\ ~last.ok
    /\ \E r \in DOMAIN repos : Truthy(repos[r].repositoryArn)

\* C11: when an import of a domain or of a repository is rejected because
\* mutually exclusive inputs were supplied, the construct tree of the
\* enclosing scope is the same after the failed call as before it.
C11_RejectedImportRegistersNothing ==
    [][(/\ last'.op \in {"Domain.fromDomainAttributes",
                         "Repository.fromRepositoryAttributes"}
        /\ ~last'.ok
        /\ last'.error \in {"domainArn and domainName are mutually exclusive",
                            "domainArn and domainOwner are mutually exclusive",
                            "repositoryArn and repositoryName are mutually exclusive",
                            "repositoryDomain and repositoryArn are mutually exclusive"})
       => constructs' = constructs]_vars

\* C12: a domain imported by name n and owner o (the deployment account when
\* no owner is given) has the ARN
\* arn:<partition>:codeartifact:<region>:<o>:domain/<n>, and a domain
\* imported from the ARN of a domain that has a name has that domain's name
\* and that domain's owner.
C12_DomainArnRoundTrip ==
    (last.op = "Domain.fromDomainAttributes" /\ last.ok)
    => LET d == domains[last.self]
           o == IF Truthy(last.props.domainOwner) THEN last.props.domainOwner
                ELSE StackAccount
       IN /\ Truthy(last.props.domainName)
             => /\ d.domainName = last.props.domainName
                /\ d.domainOwner = o
                /\ d.domainArn = <<"arn", ":">> \o StackPartition
                                 \o <<":", "codeartifact", ":">> \o StackRegion
                                 \o <<":">> \o o
                                 \o <<":", "domain", "/">> \o last.props.domainName
          /\ Truthy(last.props.domainArn)
             => \A e \in DOMAIN domains :
                    (domains[e].domainArn = last.props.domainArn
                     /\ Truthy(domains[e].domainName))
                    => /\ d.domainName = domains[e].domainName
                       /\ d.domainOwner = domains[e].domainOwner

\* C12 witness: a domain was imported by name and owner, and then a second
\* one from the ARN of the first.
C12_Witness ==
    /\ last.op = "Domain.fromDomainAttributes" /\ last.ok
    /\ last.self = 2
    /\ last.props.domainArn = domains[1].domainArn
    /\ Truthy(domains[1].domainName)
    /\ SubSeq(domains[1].domainArn, 1, 3) = <<"arn", ":", "${AWS::Partition}">>
    /\ domains[1].domainOwner = <<"444455556666">>
    /\ domains[2].domainName = domains[1].domainName

\* C13: grantRead, grantWrite, grantReadWrite and allowDeleteFromRepository,
\* called on a repository with a principal and no resource list, each append
\* to the policy document of that repository exactly one Allow statement for
\* the principal, with the static action list of the method (read; write;
\* read followed by write; delete) and the resources ['*'], and change no
\* other policy document.
C13_RepositoryGrants ==
    [][last'.op \in RepositoryGrantMethods
       => LET r == last'.self
              ref == repos[r].cfnRepository.permissionsPolicyDocument
              actions ==
                  CASE last'.op = "grantRead" -> REPOSITORY_READ_ACTIONS
                    [] last'.op = "grantWrite" -> REPOSITORY_WRITE_ACTIONS
                    [] last'.op = "grantReadWrite" ->
                           REPOSITORY_READ_ACTIONS \o REPOSITORY_WRITE_ACTIONS
                    [] last'.op = "allowDeleteFromRepository" ->
                           <<"codeartifact:DeletePackageVersions">>
          IN /\ ref # 0
             /\ repos'[r].cfnRepository.permissionsPolicyDocument = ref
             /\ DOMAIN docs' = DOMAIN docs
             /\ \A p \in DOMAIN docs :
                    docs'[p] = IF p = ref
                               THEN Append(docs[p],
                                        [effect |-> "Allow",
                                         principals |-> <<last'.principal>>,
                                         actions |-> actions,
                                         resources |-> << <<"*">> >>])
                               ELSE docs[p]]_vars

\* C13 witness: grantReadWrite for alice was called on a repository that has
\* the two statements of its construction, and its policy document now ends
\* with a statement of eleven actions.
C13_Witness ==
    /\ last.op = "grantReadWrite"
    /\ last.principal = "alice"
    /\ LET doc == docs[repos[last.self].cfnRepository.permissionsPolicyDocument]
       IN /\ Len(doc) = 3
          /\ Len(doc[3].actions) = 11
          /\ doc[3].actions[10] = "codeartifact:PublishPackageVersion"

\* C14: grantRead, grantLogin and grantCreate on a domain each produce an
\* Allow statement whose actions are the static action table of the method
\* and whose resource list is the ARN of the domain.
C14_DomainGrantsScopedToArn ==
    last.op \in DomainGrantMethods
    => /\ last.statement.effect = "Allow"
       /\ last.statement.actions =
              (CASE last.op = "Domain.grantRead" -> DOMAIN_READ_ACTIONS
                 [] last.op = "Domain.grantLogin" -> DOMAIN_LOGIN_ACTIONS
                 [] last.op = "Domain.grantCreate" -> DOMAIN_CREATE_ACTIONS)
       /\ last.statement.resources = <<domains[last.self].domainArn>>

\* C15: the mutators overwrite and never merge. After withUpstream(B) the
\* underlying upstream list is exactly the names of B, whatever list an
\* earlier withUpstream(A) or the constructor left; after
\* withExternalConnections(Y) with Y non-empty the underlying
\* external-connection list is exactly Y, whatever an earlier call left.
\* These are the lists a constructor given B and Y sets.
C15_MutatorsOverwrite ==
    [][/\ last'.op = "withUpstream"
          => repos'[last'.self].cfnRepository.upstreams =
                 [i \in 1..Len(last'.repository) |->
                     repos[last'.repository[i]].repositoryName]
       /\ (last'.op = "withExternalConnections" /\ last'.externalConnections # << >>)
          => repos'[last'.self].cfnRepository.externalConnections =
                 last'.externalConnections]_vars

\* C15 witness: a repository constructed without upstreams was given the
\* first repository as its upstream by withUpstream, and then the second
\* repository by another withUpstream.
C15_Witness ==
    /\ last.op = "withUpstream"
    /\ repos[last.self].dependencies = {}
    /\ last.before = <<RepositoryNameOf(1)>>
    /\ last.repository = <<2>>
    /\ repos[last.self].cfnRepository.upstreams = <<RepositoryNameOf(2)>>

\* C15 witness of the external connections: withExternalConnections with the
\* PyPI connection was called on a repository that held the npm connection.
C15_WitnessExternalConnections ==
    /\ last.op = "withExternalConnections"
    /\ last.before = <<NpmNpmjs>>
    /\ repos[last.self].cfnRepository.externalConnections = <<PypiPypi>>

\* C16: creating a Domain whose name is a value known only at deployment
\* fails with the 'must resolve' error and not with a message of the length
\* or pattern validation, and the underlying domain resource is not built:
\* the construct itself is the only thing the scope gains.
C16_UnresolvedDomainNameRejected ==
    [][(last'.op = "new Domain" /\ constructs' # constructs /\ IsUnresolved(last'.name))
       => /\ ~last'.ok
          /\ last'.error = "'domainName' must resolve, got: '" \o Text(last'.name) \o "'"
          /\ domains' = domains
          /\ constructs' = constructs \cup {<<NodeId(TopLevel + 1)>>}]_vars

\* C16 witness: a Domain was attempted under the stack's account id, a value
\* of one token that is also too short for a domain name, and was rejected.
C16_Witness ==
    /\ last.op = "new Domain"
    /\ last.key = NoKey
    /\ last.name = StackAccount
    /\ ~last.ok
    /\ domains = << >>

\* The whole of s has the shape [a-z][a-z0-9-]{0,48}[a-z0-9].
C17_HasDomainNameShape(s) ==
    /\ Len(s) \in 2..50
    /\ s[1] \in Lower
    /\ s[Len(s)] \in Lower \cup Digit
    /\ \A k \in 2..(Len(s) - 1) : s[k] \in Lower \cup Digit \cup {"-"}

\* C17: without an encryption key, new Domain succeeds for every name of 2
\* to 50 characters of the shape [a-z][a-z0-9-]{0,48}[a-z0-9] and builds the
\* underlying resource under that name; for every name of 51 or more 'a' it
\* fails with 'DomainName: must be less than 50 characters long.' followed
\* by the documentation sentence; whenever it fails, no underlying domain
\* resource is built.
C17_DomainNameValidation ==
    [][(last'.op = "new Domain" /\ constructs' # constructs)
       => /\ (C17_HasDomainNameShape(last'.name) /\ last'.key = NoKey)
             => /\ last'.ok
                /\ Len(domains') = Len(domains) + 1
                /\ domains'[Len(domains')].cfnDomain.domainName = last'.name
                /\ <<NodeId(TopLevel + 1), ResourceId>> \in constructs'
          /\ (Len(last'.name) >= 51 /\ last'.name = Repeat("a", Len(last'.name)))
             => /\ ~last'.ok
                /\ last'.error =
                       "DomainName: must be less than 50 characters long."
                       \o " Must match rules from " \o DomainNameRule.documentationLink
          /\ ~last'.ok
             => /\ domains' = domains
                /\ constructs' = constructs \cup {<<NodeId(TopLevel + 1)>>}]_vars

\* C17 witness: a Domain named with MaxDomainNameLength 'a' (51 or more) was
\* rejected, and after it a Domain named with 50 'a' was built.
C17_Witness ==
    /\ last.op = "new Domain"
    /\ last.key = NoKey
    /\ last.name = Repeat("a", 50)
    /\ last.ok
    /\ constructs = {<<NodeId(1)>>, <<NodeId(2)>>, <<NodeId(2), ResourceId>>}
    /\ domains[1].domainName = Repeat("a", 50)

\* C18: new Repository fails with 'RepositoryName: must be less than 100
\* characters long.' followed by the documentation sentence for every name
\* of 101 or more characters, and with the pattern message of RepositoryName
\* for a name within the bounds that holds no match of the pattern, such as
\* '@@@@@'; whenever it fails, no underlying repository resource is built.
C18_RepositoryNameValidation ==
    [][(last'.op = "new Repository" /\ constructs' # constructs)
       => /\ Len(last'.name) >= 101
             => /\ ~last'.ok
                /\ last'.error =
                       "RepositoryName: must be less than 100 characters long."
                       \o " Must match rules from "
                       \o RepositoryNameRule.documentationLink
          /\ (/\ Len(last'.name) \in 2..100
              /\ last'.name # Undefined
              /\ \A i \in 1..(Len(last'.name) - 1) :
                     \/ last'.name[i] \notin Letter \cup Digit
                     \/ last'.name[i + 1] \notin Letter \cup Digit \cup {".", "_", "-"})
             => /\ ~last'.ok
                /\ last'.error =
                       "RepositoryName: must match pattern [A-Za-z0-9][A-Za-z0-9._\\-]{1,99}."
                       \o " Must match rules from "
                       \o RepositoryNameRule.documentationLink
          /\ ~last'.ok
             => /\ repos' = repos
                /\ docs' = docs
                /\ constructs' = constructs \cup {<<NodeId(TopLevel + 1)>>}]_vars

\* C18 witness: a Repository named with 101 'a' was rejected for its length
\* in a stack whose only other construct is its domain.
C18_Witness ==
    /\ last.op = "new Repository"
    /\ last.name = Repeat("a", 101)
    /\ ~last.ok
    /\ repos = << >>
    /\ Len(domains) = 1
    /\ constructs = {<<NodeId(1)>>, <<NodeId(1), ResourceId>>, <<NodeId(2)>>}

\* C18 witness of the pattern: a Repository named '@@@@@' was rejected.
C18_WitnessPattern ==
    /\ last.op = "new Repository"
    /\ last.name = Repeat("@", 5)
    /\ ~last.ok
    /\ repos = << >>

\* C19: the ARN packageArn returns ends, after a ':', with
\* package/<owner>/<domain>/<format>/<namespace>/<name>. Asked for the
\* wildcard scope, the owner, the domain, the region, the account and the
\* partition are all '*', whatever the repository; otherwise the owner and
\* the domain are those of the repository's domain.
C19_PackageArn ==
    last.op = "packageArn"
    => LET dom == domains[repos[last.self].repositoryDomain]
           p == last.repositoryPackage
           tail(owner, name) ==
               <<":", "package", "/">> \o owner \o <<"/">> \o name
               \o <<"/">> \o p.packageFormat \o <<"/">> \o p.packageNamespace
               \o <<"/">> \o p.packageName
           own == tail(dom.domainOwner, dom.domainName)
           n == Len(last.result)
       IN IF last.useResourceArns
          THEN last.result =
                   <<"arn", ":", "*", ":", "codeartifact", ":", "*", ":", "*">>
                   \o tail(Wildcard, Wildcard)
          ELSE /\ n > Len(own)
               /\ SubSeq(last.result, n - Len(own) + 1, n) = own
               /\ SubSeq(last.result, 1, 2) = <<"arn", ":">>

\* C19 witness: the ARN of the npm package sc/pk was asked, without the
\* wildcard scope, of a repository in a domain imported under an account.
C19_Witness ==
    /\ last.op = "packageArn"
    /\ ~last.useResourceArns
    /\ domains[repos[last.self].repositoryDomain].kind = "ImportedDomain"
    /\ last.result =
           <<"arn", ":", "${AWS::Partition}", ":", "codeartifact", ":",
             "${AWS::Region}", ":", "${AWS::AccountId}", ":", "package", "/",
             "123456789012", "/", "d", "o", "m", "-", "2", "/", "npm", "/",
             "s", "c", "/", "p", "k">>

\* C19 witness of the wildcard scope: the ARN of a package with an empty
\* namespace was asked with the wildcard scope.
C19_WitnessWildcard ==
    /\ last.op = "packageArn"
    /\ last.useResourceArns
    /\ last.result =
           <<"arn", ":", "*", ":", "codeartifact", ":", "*", ":", "*", ":",
             "package", "/", "*", "/", "*", "/", "pypi", "/", "/", "q">>

\* C20: the rule onEvent creates on a repository has the source
\* ['aws.codeartifact'] and a detail filter with the name and the owner of
\* the repository's domain and the name of the repository, and no detail
\* type; the rule onPackageVersionStateChange creates has the same source
\* and detail and the detail type
\* ['CodeArtifact Package Version State Change']. The rule is a child of
\* the repository.
C20_EventRules ==
    (last.op \in {"onEvent", "onPackageVersionStateChange"} /\ last.ok)
    => LET r == repos[last.self]
           dom == domains[r.repositoryDomain]
       IN /\ last.rule.eventPattern.source = <<"aws.codeartifact">>
          /\ last.rule.eventPattern.detail =
                 [domainName |-> <<dom.domainName>>,
                  domainOwner |-> <<dom.domainOwner>>,
                  repositoryName |-> <<r.repositoryName>>]
          /\ last.rule.eventPattern.detailType =
                 IF last.op = "onPackageVersionStateChange"
                 THEN <<"CodeArtifact Package Version State Change">>
                 ELSE UndefinedList
          /\ <<r.id, last.id>> \in constructs

\* C20 witness: onPackageVersionStateChange("subscription", {}) was called on
\* a repository of a domain built in the stack.
C20_Witness ==
    /\ last.op = "onPackageVersionStateChange"
    /\ last.ok
    /\ last.id = <<"subscription">>
    /\ last.target = Undefined
    /\ domains[repos[last.self].repositoryDomain].kind = "Domain"
    /\ last.rule.eventPattern.detail.repositoryName = <<RepositoryNameOf(1)>>
    /\ last.rule.eventPattern.detailType = <<"CodeArtifact Package Version State Change">>

\* The statements of the policy document repository object r holds.
C21_PolicyOf(heap, r) == Rendered(heap, r.cfnRepository.permissionsPolicyDocument)

\* The resources a call recorded in call names: the wildcard when the caller
\* gave none, the wildcard package ARNs of the packages for the ...Packages
\* methods.
C21_ResourcesOf(call) ==
    IF call.scope = << >> THEN <<Wildcard>>
    ELSE IF call.op \in {"allowWriteToRepositoryPackages",
                         "allowWriteDeleteOnRepositoryPackages"}
    THEN [i \in DOMAIN call.scope[1] |->
              <<"arn", ":", "*", ":", "codeartifact", ":", "*", ":", "*", ":",
                "package", "/", "*", "/", "*", "/">>
              \o call.scope[1][i].packageFormat \o <<"/">>
              \o call.scope[1][i].packageNamespace \o <<"/">>
              \o call.scope[1][i].packageName]
    ELSE call.scope[1]

\* The statement a call recorded in call hands to the policy.
C21_StatementOf(call) ==
    CASE call.op = "addToResourcePolicy" -> call.statement
      [] call.op = "allowReadFromRepository" ->
             Statement(call.principal, RepositoryReadActions, <<Wildcard>>)
      [] call.op \in {"allowWriteToRepository", "allowWriteToRepositoryPackages"} ->
             Statement(call.principal, RepositoryWriteActions, C21_ResourcesOf(call))
      [] call.op = "allowDeleteFromRepository" ->
             Statement(call.principal, <<"codeartifact:DeletePackageVersions">>,
                       C21_ResourcesOf(call))
      [] call.op \in {"allowWriteDeleteOnRepository",
                      "allowWriteDeleteOnRepositoryPackages"} ->
             Statement(call.principal,
                       <<"codeartifact:PublishPackageVersion",
                         "codeartifact:PutPackageMetadata",
                         "codeartifact:DeletePackageVersions">>,
                       C21_ResourcesOf(call))

\* C21: Repository.addToResourcePolicy always appends. Every
\* addToResourcePolicy / allow* call returns statementAdded = true and leaves
\* the repository's policy document equal to what it was followed by the
\* statement of the call; and no step ever removes or replaces a statement
\* of a repository's policy document: the old document is a prefix of the
\* new one, with or without a policy document given at construction.
C21_RepositoryPolicyAppends ==
    [][/\ \A r \in DOMAIN repos :
             LET old == C21_PolicyOf(docs, repos[r])
                 new == C21_PolicyOf(docs', repos'[r])
             IN Len(new) >= Len(old) /\ SubSeq(new, 1, Len(old)) = old
       /\ calls' = calls + 1
          => /\ last'.statementAdded
             /\ C21_PolicyOf(docs', repos'[last'.self]) =
                    Append(C21_PolicyOf(docs, repos[last'.self]),
                           C21_StatementOf(last'))]_vars

\* C21 witness: on a repository built with a policy document of the caller,
\* allowDeleteFromRepository and then addToResourcePolicy were called: the
\* document holds the caller's statement and the two added, in call order.
C21_Witness ==
    /\ calls = 2
    /\ last.op = "addToResourcePolicy"
    /\ last.statementAdded
    /\ \E st \in CallerStatements :
           C21_PolicyOf(docs, repos[last.self]) =
               <<st, Statement("alice", <<"codeartifact:DeletePackageVersions">>,
                               <<Wildcard>>),
                 last.statement>>

\* C21 witness without a document of the caller: addToResourcePolicy was
\* called on a repository whose policy the constructor had started.
C21_WitnessOwnDocument ==
    /\ calls = 1
    /\ last.op = "addToResourcePolicy"
    /\ C21_PolicyOf(docs, repos[last.self]) =
           <<Statement(AccountRootPrincipal, RepositoryReadActions, <<Wildcard>>),
             Statement(AccountRootPrincipal, RepositoryWriteActions, <<Wildcard>>),
             last.statement>>

\* C22: in every reachable state, the domain name on the underlying resource
\* of a repository is the domain name of the domain the repository reports
\* as repositoryDomain, and the domain owner on the underlying resource is
\* that domain's owner.
C22_UnderlyingDomainMatchesReported ==
    \A r \in DOMAIN repos :
        repos[r].kind = "Repository"
        => /\ repos[r].cfnRepository.domainName =
                  domains[repos[r].repositoryDomain].domainName
           /\ repos[r].cfnRepository.domainOwner =
                  domains[repos[r].repositoryDomain].domainOwner

\* C23: a statement added to one repository's resource policy never appears
\* in another repository's: an addToResourcePolicy / allow* call on r1 leaves
\* the policy document of every other repository r2 as it was, including
\* when r1 and r2 were constructed with the same policy document of the
\* caller.
C23_RepositoryPoliciesIsolated ==
    [][calls' = calls + 1
       => \A r2 \in DOMAIN repos :
              r2 # last'.self
              => Rendered(docs', repos'[r2].cfnRepository.permissionsPolicyDocument)
                     = Rendered(docs, repos[r2].cfnRepository.permissionsPolicyDocument)]_vars

\* C24: every domain a successful import returns, the domain an imported
\* repository creates for itself included, has a defined domain name, a
\* defined domain owner and a defined domain ARN.
C24_ImportedDomainsDefined ==
    \A d \in DOMAIN domains :
        domains[d].kind = "ImportedDomain"
        => /\ domains[d].domainName # Undefined
           /\ domains[d].domainOwner # Undefined
           /\ domains[d].domainArn # Undefined

\* C25: called with no argument the two mutators differ.
\* withExternalConnections() leaves the underlying external-connection list
\* as it was, and with it the whole repository; withUpstream() sets the
\* underlying upstream list to the empty list. Both leave every other field
\* of the repository, every other repository, the domains, the policy
\* documents and the construct tree unchanged.
C25_EmptyMutators ==
    [][/\ (/\ calls' = calls + 1
           /\ last'.op = "withExternalConnections"
           /\ last'.externalConnections = << >>)
          => /\ repos' = repos
             /\ UNCHANGED <<domains, docs, constructs>>
       /\ (/\ calls' = calls + 1
           /\ last'.op = "withUpstream"
           /\ last'.repository = << >>)
          => /\ repos'[last'.self].cfnRepository.upstreams = << >>
             /\ repos' = [repos EXCEPT ![last'.self].cfnRepository.upstreams = << >>]
             /\ UNCHANGED <<domains, docs, constructs>>]_vars

\* C25 witness: withUpstream() was called on a repository constructed with
\* the first repository as its upstream: the list is empty and the
\* dependency the constructor recorded is still there.
C25_Witness ==
    /\ last.op = "withUpstream"
    /\ last.repository = << >>
    /\ last.before = <<RepositoryNameOf(1)>>
    /\ repos[last.self].cfnRepository.upstreams = << >>
    /\ repos[last.self].dependencies = {1}

\* C25 witness of the external connections: withExternalConnections() was
\* called on a repository that held the npm connection, and still holds it.
C25_WitnessExternalConnections ==
    /\ last.op = "withExternalConnections"
    /\ last.externalConnections = << >>
    /\ last.before = <<NpmNpmjs>>
    /\ repos[last.self].cfnRepository.externalConnections = <<NpmNpmjs>>

====
